---------------------------- MODULE Spec2Model ----------------------------
(***************************************************************************)
(* Model of the agent orchestration core of minimal.ai:                    *)
(*   app/agent/tool_registry.py  ToolRegistry (register/unregister/execute)*)
(*   app/agent/planner.py        Planner.create_plan and its helpers       *)
(*   app/agent/executor.py       AgentRunner.run and its helpers           *)
(*   app/orchestrator/strategies.py classify_task_complexity_keywords      *)
(*                                                                         *)
(* Text is a sequence of atoms (TLA+ strings).  An atom stands for a run   *)
(* of characters that the code only ever handles as a whole: a literal     *)
(* word, the marker "[ERROR]", a blank, or one template reference          *)
(* "{step_N_output}".  Python's None and the value/str distinction are     *)
(* kept with tagged values [t |-> "none" | "str" | "obj", s |-> text].     *)
(* Wall-clock latencies are not tracked.  Tool bodies, the planning model  *)
(* and the document store are the environment: each call picks one of the  *)
(* outcomes its interface allows.  Exceptions are subclasses of Exception  *)
(* (what `except Exception` catches).                                      *)
(***************************************************************************)
EXTENDS Integers, Sequences, FiniteSets, TLC

VARIABLES
    pc,             \* position of AgentRunner.run (or of the operation under test)
    tools,          \* ToolRegistry._tools: insertion-ordered name -> tool bindings
    retry_enabled,  \* settings.AGENT_RETRY_ON_FAILURE as read by _execute_with_retry
    max_steps,      \* settings.AGENT_MAX_STEPS as read by run
    prompt,         \* user_prompt
    memory_context, \* memory_context, and whether the fetch behind it failed
    plan_len,       \* history: len(plan.steps) as create_plan returned the plan
    plan,           \* the plan object held by run (its steps are capped in place)
    planning_calls, \* number of gemini.generate calls made by the planner
    planning_reply, \* history: how the latest gemini.generate call ended
    idx,            \* position in plan.steps of the step being executed (1-based)
    resolved_args,  \* resolved_args of the current step
    result,         \* result of the latest registry.execute of the current step
    step_outputs,   \* step_outputs: step_id -> output text
    step_results,   \* step_results (AgentResult.steps_executed)
    total_tokens,   \* total_tokens
    models_used,    \* models_used
    calls,          \* history: every registry.execute call, in order
    db,             \* what the document store holds for this request
    returned,       \* the AgentResult (or the raised exception) of run
    fin,            \* pure-function harnesses: the input drawn
    fout,           \* pure-function harnesses: the output computed
    reqs,           \* interleaved requests: the locals of each run coroutine
    in_flight       \* interleaved requests: the registry calls awaited right now

vars == <<pc, tools, retry_enabled, max_steps, prompt, memory_context, plan_len, plan,
          planning_calls, planning_reply, idx, resolved_args, result, step_outputs,
          step_results, total_tokens, models_used, calls, db, returned, fin, fout,
          reqs, in_flight>>

-----------------------------------------------------------------------------
(* Bounds of the model *)

\* longest steps list the planning model returns
MaxPlanLen == 3
\* largest configured step cap explored (the code's default is AGENT_MAX_STEPS)
MaxCap == 2

-----------------------------------------------------------------------------
(* Python values *)

None == [t |-> "none", s |-> <<>>]
Str(s) == [t |-> "str", s |-> s]
Obj(s) == [t |-> "obj", s |-> s]      \* a non-str value whose str() is s

\* truthiness of an Optional[str]
Truthy(v) == v.t # "none" /\ v.s # <<>>

Min(a, b) == IF a <= b THEN a ELSE b

\* s[:n]
Take(s, n) == SubSeq(s, 1, Min(Len(s), n))

\* s.startswith(p)
StartsWith(s, p) == Len(s) >= Len(p) /\ SubSeq(s, 1, Len(p)) = p

\* the marker the runner writes, and the prefix _compile_response tests
ErrorMarker == <<"[ERROR]", " ">>
ErrorPrefix == <<"[ERROR]">>

\* the template references r"\{step_(\d+)_output\}" and the int() of their digits
RefTable == { <<"{step_0_output}", 0>>, <<"{step_1_output}", 1>>,
              <<"{step_2_output}", 2>>, <<"{step_3_output}", 3>>,
              <<"{step_4_output}", 4>>, <<"{step_5_output}", 5>>,
              <<"{step_01_output}", 1>> }

IsRef(a) == \E e \in RefTable : e[1] = a
RefId(a) == (CHOOSE e \in RefTable : e[1] = a)[2]
StepRef(n) == CHOOSE a \in {e[1] : e \in RefTable} :
                  a # "{step_01_output}" /\ RefId(a) = n

-----------------------------------------------------------------------------
(* ToolResult and the tool registry (tool_registry.py) *)

\* ToolResult(success, output, error, tokens_used, metadata); the defaults of
\* the dataclass are output None, error None, tokens_used 0, metadata {}
NoMetadata == [model |-> None, traceback |-> None]
ToolResult(success, output, error, tokens_used, metadata) ==
    [success |-> success, output |-> output, error |-> error,
     tokens_used |-> tokens_used, metadata |-> metadata]

\* list_names(): the registered names in insertion order
list_names(ts) == [i \in 1..Len(ts) |-> ts[i].name]

Registered(ts, name) == \E i \in 1..Len(ts) : ts[i].name = name

\* self._tools.get(name), for a registered name
Lookup(ts, name) == ts[CHOOSE i \in 1..Len(ts) : ts[i].name = name].obj

\* what one execution of a tool body does: it returns a ToolResult, returns
\* some other value, or raises
Returns(r) == [kind |-> "returns", res |-> r, value |-> None, cls |-> "", msg |-> <<>>]
ReturnsRaw(v) == [kind |-> "raw", res |-> ToolResult(TRUE, None, None, 0, NoMetadata),
                  value |-> v, cls |-> "", msg |-> <<>>]
Raises(c, m) == [kind |-> "raises", res |-> ToolResult(FALSE, None, None, 0, NoMetadata),
                 value |-> None, cls |-> c, msg |-> m]

\* traceback.format_exc() of an exception of class c with message m
FormatExc(c, m) == <<"Traceback (most recent call last):", c, ": ">> \o m

\* mutant: the error for an unknown name does not list the registered names
RegistryExecuteNoNames(ts, tool_name, body) ==
    IF ~Registered(ts, tool_name)
    THEN ToolResult(FALSE, None, Str(<<"Tool '", tool_name, "' not found.">>),
                    0, NoMetadata)
    ELSE CASE body.kind = "returns" -> body.res
           [] body.kind = "raw" -> ToolResult(TRUE, body.value, None, 0, NoMetadata)
           [] body.kind = "raises" ->
                ToolResult(FALSE, None, Str(<<body.cls, ": ">> \o body.msg), 0,
                           [model |-> None,
                            traceback |-> Str(FormatExc(body.cls, body.msg))])

\* mutant: the error of a raising tool is str(e) alone, without the class name
RegistryExecuteMessageOnly(ts, tool_name, body) ==
    IF ~Registered(ts, tool_name)
    THEN ToolResult(FALSE, None,
                    Str(<<"Tool '", tool_name, "' not found. Available: ">>
                        \o list_names(ts)),
                    0, NoMetadata)
    ELSE CASE body.kind = "returns" -> body.res
           [] body.kind = "raw" -> ToolResult(TRUE, body.value, None, 0, NoMetadata)
           [] body.kind = "raises" ->
                ToolResult(FALSE, None, Str(body.msg), 0,
                           [model |-> None,
                            traceback |-> Str(FormatExc(body.cls, body.msg))])

\* ToolRegistry.execute(tool_name, **kwargs), given what the tool body does
RegistryExecute(ts, tool_name, body) ==
    IF ~Registered(ts, tool_name)
    THEN ToolResult(FALSE, None,
                    Str(<<"Tool '", tool_name, "' not found. Available: ">>
                        \o list_names(ts)),
                    0, NoMetadata)
    ELSE CASE body.kind = "returns" -> body.res
           [] body.kind = "raw" -> ToolResult(TRUE, body.value, None, 0, NoMetadata)
           [] body.kind = "raises" ->
                ToolResult(FALSE, None, Str(<<body.cls, ": ">> \o body.msg), 0,
                           [model |-> None,
                            traceback |-> Str(FormatExc(body.cls, body.msg))])

\* the tool objects whose execute body ToolRegistry.execute awaits: the one
\* bound to the name, none when the name is not registered
Invoked(ts, tool_name) ==
    IF Registered(ts, tool_name) THEN <<Lookup(ts, tool_name)>> ELSE <<>>

\* the built-in tools registered by _register_builtin_tools
BuiltinTools == << [name |-> "llm_generate", obj |-> "LLMGenerateTool"],
                   [name |-> "llm_analyze_image", obj |-> "ImageAnalysisTool"],
                   [name |-> "send_email", obj |-> "EmailTool"] >>

\* the behaviours a tool body can show on one call.  A tool is any subclass of
\* Tool: it may succeed with or without output, fail with or without an error
\* text (error defaults to None), return a value that is no ToolResult, or
\* raise; the text it answers with is any text, also one that starts like the
\* runner's marker.  The three built-in tools always give an error text when
\* they fail.
ToolBodies ==
    { Returns(ToolResult(TRUE, Str(<<"answer">>), None, 2,
                         [model |-> Str(<<"gpt-oss">>), traceback |-> None])),
      Returns(ToolResult(TRUE, Str(<<"[ERROR]", " is what the log shows">>), None, 2,
                         [model |-> Str(<<"gpt-oss">>), traceback |-> None])),
      Returns(ToolResult(TRUE, None, None, 0, NoMetadata)),
      Returns(ToolResult(FALSE, None, Str(<<"LLM generation failed: ", "boom">>), 1,
                         NoMetadata)),
      Returns(ToolResult(FALSE, None, None, 0, NoMetadata)),
      ReturnsRaw(Obj(<<"42">>)),
      Raises("ValueError", <<"bad input">>) }

-----------------------------------------------------------------------------
(* The keyword heuristic (strategies.py) *)

\* word-count thresholds of classify_task_complexity_keywords
COMPLEX_WORDS == 50
MODERATE_WORDS == 20

\* A prompt is what the heuristic reads of it: which keyword lists have a
\* phrase occurring in it, and len(user_prompt.split()).
WordCounts == {0, 1, MODERATE_WORDS, MODERATE_WORDS + 1, COMPLEX_WORDS, COMPLEX_WORDS + 1}
Prompts == { p \in [image : BOOLEAN, complex : BOOLEAN, moderate : BOOLEAN,
                    words : WordCounts] :
               (p.image \/ p.complex \/ p.moderate) => p.words >= 1 }

\* the text of a prompt: its keyword phrases and its filler words
PromptText(p) ==
    (IF p.image THEN <<"photo">> ELSE <<>>) \o
    (IF p.complex THEN <<"debug">> ELSE <<>>) \o
    (IF p.moderate THEN <<"list">> ELSE <<>>) \o
    <<"words:", ToString(p.words)>>

\* mutant: the complex rule is tried before the image rule
classify_complex_first(p) ==
    IF p.complex \/ p.words > COMPLEX_WORDS THEN "complex"
    ELSE IF p.image THEN "image"
    ELSE IF p.moderate \/ p.words > MODERATE_WORDS THEN "moderate"
    ELSE "simple"

classify_task_complexity_keywords(p) ==
    IF p.image THEN "image"
    ELSE IF p.complex \/ p.words > COMPLEX_WORDS THEN "complex"
    ELSE IF p.moderate \/ p.words > MODERATE_WORDS THEN "moderate"
    ELSE "simple"

-----------------------------------------------------------------------------
(* Planner (planner.py) *)

\* PlanStep (its description is not tracked)
PlanStep(step_id, tool_name, args, depends_on) ==
    [step_id |-> step_id, tool_name |-> tool_name, args |-> args,
     depends_on |-> depends_on]

\* ExecutionPlan; metadata is {} (planning_tokens None) unless the planner sets it
ExecutionPlan(goal, complexity, steps, planning_tokens) ==
    [goal |-> goal, complexity |-> complexity, steps |-> steps,
     metadata |-> [planning_tokens |-> planning_tokens]]

\* plan.metadata.get("planning_tokens", 0)
PlanningTokens(p) ==
    IF p.metadata.planning_tokens.t = "none" THEN 0 ELSE p.metadata.planning_tokens.v

NoTokens == [t |-> "none", v |-> 0]
Tokens(n) == [t |-> "int", v |-> n]

\* mutant: the fast path asks for the provider of the fallback path
create_simple_plan_gemini(p, complexity) ==
    ExecutionPlan(PromptText(p), complexity,
        << PlanStep(0, "llm_generate",
                    [prompt |-> Str(PromptText(p)), provider |-> Str(<<"gemini">>),
                     temperature |-> Obj(<<"0.4">>)], <<>>) >>,
        NoTokens)

\* Planner._create_simple_plan
create_simple_plan(p, complexity) ==
    ExecutionPlan(PromptText(p), complexity,
        << PlanStep(0, "llm_generate",
                    [prompt |-> Str(PromptText(p)), provider |-> Str(<<"groq">>),
                     temperature |-> Obj(<<"0.4">>)], <<>>) >>,
        NoTokens)

\* mutant: the fallback plan is labelled simple whatever the heuristic said
create_fallback_plan_simple(p, complexity) ==
    ExecutionPlan(PromptText(p), "simple",
        << PlanStep(0, "llm_generate",
                    [prompt |-> Str(PromptText(p)), provider |-> Str(<<"gemini">>),
                     model |-> Str(<<"gemini-2.5-flash">>),
                     temperature |-> Obj(<<"0.5">>)], <<>>) >>,
        NoTokens)

\* Planner._create_fallback_plan
create_fallback_plan(p, complexity) ==
    ExecutionPlan(PromptText(p), complexity,
        << PlanStep(0, "llm_generate",
                    [prompt |-> Str(PromptText(p)), provider |-> Str(<<"gemini">>),
                     model |-> Str(<<"gemini-2.5-flash">>),
                     temperature |-> Obj(<<"0.5">>)], <<>>) >>,
        NoTokens)

\* the steps the planning model may write: a step object carries step_id,
\* tool_name, args and depends_on; step_id or tool_name may be missing
RawStep(has_id, id, has_tool, tool, args, depends_on) ==
    [has_step_id |-> has_id, step_id |-> id, has_tool_name |-> has_tool,
     tool_name |-> tool, args |-> args, depends_on |-> depends_on]

PlanArgs(ref) ==
    { [prompt |-> Str(<<"do it">>)],
      [prompt |-> Str(<<"use ", StepRef(ref)>>)] }

\* "web_search" is a tool name no registered tool has
RawSteps ==
    { RawStep(TRUE, id, TRUE, "llm_generate", args, <<>>) : id \in {0, 1}, args \in PlanArgs(0) }
    \cup { RawStep(TRUE, id, TRUE, "web_search", [prompt |-> Str(<<"do it">>)], <<>>) :
             id \in {0, 1} }

MalformedSteps ==
    { RawStep(FALSE, 0, TRUE, "llm_generate", [prompt |-> Str(<<"do it">>)], <<>>),
      RawStep(TRUE, 0, FALSE, "", [prompt |-> Str(<<"do it">>)], <<>>) }

\* a step object whose "args" is the JSON null: s.get("args", {}) is None
NullArgs == None
NullArgSteps == { RawStep(TRUE, 0, TRUE, "llm_generate", NullArgs, <<>>) }

\* args.items() exists: the value is a mapping
IsMapping(args) == args # NullArgs

\* a step object whose args has a key named like a parameter of
\* ToolRegistry.execute(self, tool_name, **kwargs)
ClashingArgs == [prompt |-> Str(<<"do it">>), tool_name |-> Str(<<"send_email">>)]
ClashingSteps == { RawStep(TRUE, 0, TRUE, "llm_generate", ClashingArgs, <<>>) }
PlainStep == RawStep(TRUE, 1, TRUE, "llm_generate", [prompt |-> Str(<<"do it">>)], <<>>)

\* mutant: the keys of args never meet the parameters of execute
BindsAnything(args) == TRUE

\* self.registry.execute(tool_name, **args) can bind its arguments: no key of
\* args names a parameter of execute (else the call raises TypeError)
Binds(args) == "tool_name" \notin DOMAIN args /\ "self" \notin DOMAIN args

RECURSIVE SeqsUpTo(_, _)
SeqsUpTo(S, n) ==
    IF n = 0 THEN { <<>> }
    ELSE LET shorter == SeqsUpTo(S, n - 1) IN
         shorter \cup { Append(q, x) : q \in { r \in shorter : Len(r) = n - 1 }, x \in S }

\* the parsed JSON values: an object (with or without "steps" and
\* "complexity"), or some other JSON value
JsonDict(has_steps, steps, complexity) ==
    [t |-> "dict", has_steps |-> has_steps, steps |-> steps, complexity |-> complexity]
JsonOther == [t |-> "other", has_steps |-> FALSE, steps |-> <<>>, complexity |-> "absent"]

JsonValues ==
    { JsonDict(TRUE, ss, "absent") : ss \in SeqsUpTo(RawSteps, MaxPlanLen) }
    \cup { JsonDict(TRUE, <<s>>, c) : s \in RawSteps, c \in {"simple", "moderate"} }
    \cup { JsonDict(TRUE, <<s>>, "absent") : s \in MalformedSteps }
    \cup { JsonDict(TRUE, <<s>>, "absent") : s \in NullArgSteps }
    \cup { JsonDict(TRUE, ss, "absent") :
             ss \in UNION { {<<s, PlainStep>>, <<PlainStep, s>>} : s \in ClashingSteps } }
    \cup { JsonDict(FALSE, <<>>, "absent"), JsonOther }

\* what gemini.generate does: it raises, or returns text with its token count.
\* The text is JSON, JSON inside prose or a code fence, or not JSON at all.
GenRaises == [kind |-> "raises", form |-> "none", data |-> JsonOther, tokens_used |-> 0]
GenReturns(form, data) ==
    [kind |-> "returns", form |-> form, data |-> data, tokens_used |-> 5]

GenOutcomes ==
    { GenRaises, GenReturns("garbage", JsonOther) }
    \cup { GenReturns("json", d) : d \in JsonValues }
    \cup { GenReturns("wrapped", JsonDict(TRUE, <<s>>, "absent")) : s \in RawSteps }

\* Planner._parse_plan_json: the direct json.loads, then the text between the
\* first "{" and the last "}"; ok is FALSE when it raises ValueError
parse_plan_json(gen) ==
    LET direct_ok == gen.form = "json"
        block_ok == gen.form \in {"json", "wrapped"}
    IN  IF direct_ok THEN [ok |-> TRUE, data |-> gen.data]
        ELSE IF block_ok THEN [ok |-> TRUE, data |-> gen.data]
        ELSE [ok |-> FALSE, data |-> JsonOther]

\* ExecutionPlan.from_dict: raises (ok FALSE) when data has no .get, or a step
\* lacks "step_id" or "tool_name"
from_dict(data) ==
    LET raw == IF data.has_steps THEN data.steps ELSE <<>> IN
    IF data.t # "dict" THEN [ok |-> FALSE, plan |-> ExecutionPlan(<<>>, "", <<>>, NoTokens)]
    ELSE IF \E i \in 1..Len(raw) : ~raw[i].has_step_id \/ ~raw[i].has_tool_name
    THEN [ok |-> FALSE, plan |-> ExecutionPlan(<<>>, "", <<>>, NoTokens)]
    ELSE [ok |-> TRUE,
          plan |-> ExecutionPlan(<<"goal">>,
                      IF data.complexity = "absent" THEN "simple" ELSE data.complexity,
                      [i \in 1..Len(raw) |->
                          PlanStep(raw[i].step_id, raw[i].tool_name, raw[i].args,
                                   raw[i].depends_on)],
                      NoTokens)]

\* mutant: the parsed plan is relabelled with the heuristic's class
create_ai_plan_relabelled(p, complexity, gen) ==
    IF gen.kind = "raises" THEN create_fallback_plan(p, complexity)
    ELSE LET parsed == parse_plan_json(gen) IN
         IF ~parsed.ok THEN create_fallback_plan(p, complexity)
         ELSE LET built == from_dict(parsed.data) IN
              IF ~built.ok THEN create_fallback_plan(p, complexity)
              ELSE [built.plan EXCEPT !.complexity = complexity,
                                      !.metadata.planning_tokens = Tokens(gen.tokens_used)]

\* Planner._create_ai_plan, given what the planning call does
create_ai_plan(p, complexity, gen) ==
    IF gen.kind = "raises" THEN create_fallback_plan(p, complexity)
    ELSE LET parsed == parse_plan_json(gen) IN
         IF ~parsed.ok THEN create_fallback_plan(p, complexity)
         ELSE LET built == from_dict(parsed.data) IN
              IF ~built.ok THEN create_fallback_plan(p, complexity)
              ELSE [built.plan EXCEPT !.metadata.planning_tokens = Tokens(gen.tokens_used)]

-----------------------------------------------------------------------------
(* AgentRunner helpers (executor.py) *)

\* f"[step {step_id} output unavailable]"
Placeholder(n) == <<"[step ", ToString(n), " output unavailable]">>

\* mutant: a reference to a step without output is dropped
replacer_dropping(a, outs) ==
    IF RefId(a) \in DOMAIN outs THEN outs[RefId(a)] ELSE <<>>

\* mutant: a reference to a step recorded with an error marker is not filled in
replacer_skipping_errors(a, outs) ==
    IF RefId(a) \in DOMAIN outs /\ ~StartsWith(outs[RefId(a)], ErrorPrefix)
    THEN outs[RefId(a)]
    ELSE Placeholder(RefId(a))

\* replacer(match) of _resolve_args
replacer(a, outs) ==
    IF RefId(a) \in DOMAIN outs THEN outs[RefId(a)] ELSE Placeholder(RefId(a))

\* re.sub(pattern, replacer, value): one left-to-right pass over value; the
\* replacement text is appended as it is and not scanned again
RECURSIVE re_sub(_, _)
re_sub(value, outs) ==
    IF value = <<>> THEN <<>>
    ELSE (IF IsRef(Head(value)) THEN replacer(Head(value), outs)
          ELSE <<Head(value)>>) \o re_sub(Tail(value), outs)

\* mutant: the text that was substituted is scanned for references again
resolve_args_rescanning(args, outs) ==
    [k \in DOMAIN args |->
        IF args[k].t = "str" THEN Str(re_sub(re_sub(args[k].s, outs), outs)) ELSE args[k]]

\* AgentRunner._resolve_args(args, step_outputs)
resolve_args(args, outs) ==
    [k \in DOMAIN args |->
        IF args[k].t = "str" THEN Str(re_sub(args[k].s, outs)) ELSE args[k]]

\* mutant: the marker text of a failed step is followed by the captured trace
OutputTextWithTrace(r) ==
    IF r.success /\ r.output.t # "none" THEN r.output.s
    ELSE IF Truthy(r.error) THEN ErrorMarker \o r.error.s \o r.metadata.traceback.s
    ELSE <<>>

\* lines 146-150 of run: the output text of a step's final result
OutputText(r) ==
    IF r.success /\ r.output.t # "none" THEN r.output.s
    ELSE IF Truthy(r.error) THEN ErrorMarker \o r.error.s
    ELSE <<>>

\* mutant: the retry is made whenever it is enabled, also after a success
RetryAlways(r, enabled) == enabled

\* the condition under which _execute_with_retry calls the registry again
RetryWanted(r, enabled) == ~r.success /\ enabled

SetMax(S) == CHOOSE m \in S : \A x \in S : x <= m

\* mutant: the keys are scanned in ascending order
RECURSIVE FirstNonError(_, _)
FirstNonError(outs, ids) ==
    IF ids = {} THEN <<"An error occurred while processing your request. Please try again.">>
    ELSE LET sid == CHOOSE m \in ids : \A x \in ids : m <= x IN
         IF ~StartsWith(outs[sid], ErrorPrefix) THEN outs[sid]
         ELSE FirstNonError(outs, ids \ {sid})

\* sorted(step_outputs.keys(), reverse=True) scanned for the first non-error
RECURSIVE LastNonError(_, _)
LastNonError(outs, ids) ==
    IF ids = {} THEN <<"An error occurred while processing your request. Please try again.">>
    ELSE LET sid == SetMax(ids) IN
         IF ~StartsWith(outs[sid], ErrorPrefix) THEN outs[sid]
         ELSE LastNonError(outs, ids \ {sid})

\* mutant: the output of the highest step_id is returned whatever it is
compile_response_last(outs) ==
    IF DOMAIN outs = {} THEN <<"I couldn't generate a response. Please try again.">>
    ELSE outs[SetMax(DOMAIN outs)]

\* AgentRunner._compile_response(step_outputs, plan)
compile_response(outs) ==
    IF DOMAIN outs = {} THEN <<"I couldn't generate a response. Please try again.">>
    ELSE LET last_output == outs[SetMax(DOMAIN outs)] IN
         IF StartsWith(last_output, ErrorPrefix)
         THEN LastNonError(outs, DOMAIN outs)
         ELSE last_output

-----------------------------------------------------------------------------
(* AgentRunner.run (executor.py), one action per stretch between awaits *)

EmptyMap == [x \in {} |-> <<>>]
NoPlan == ExecutionPlan(<<>>, "", <<>>, NoTokens)
NoResult == ToolResult(FALSE, None, None, 0, NoMetadata)
NoArgs == [prompt |-> None]
NoFin == [op |-> "none"]
NoReply == [kind |-> "none", form |-> "none", complexity |-> "absent", tokens_used |-> 0]
EmptyDb == [request |-> FALSE, plan |-> FALSE, steps |-> <<>>,
            response |-> None, interaction |-> FALSE]
NotReturned == [kind |-> "running", response |-> <<>>, steps_executed |-> <<>>,
                total_tokens |-> 0, models_used |-> {}]
Raised(what) == [kind |-> "raised", response |-> <<what>>, steps_executed |-> <<>>,
                 total_tokens |-> 0, models_used |-> {}]

\* caps of the two truncations of a step's output text
DB_OUTPUT_CAP == 10000
API_OUTPUT_CAP == 2000

\* Filler(n) is one atom that stands for a run of n characters; every other
\* atom is the characters it is written with
Filler(n) == "x*" \o ToString(n)

\* lengths of long outputs, on both sides of the two caps, with and without
\* the eight characters of the marker in front
TruncLens == { c + d : c \in {API_OUTPUT_CAP, DB_OUTPUT_CAP}, d \in {-9, -8, -7, -1, 0, 1} }
             \cup {1, DB_OUTPUT_CAP + API_OUTPUT_CAP}
FillerLens == TruncLens \cup {API_OUTPUT_CAP, DB_OUTPUT_CAP}

IsFiller(a) == \E n \in FillerLens : a = Filler(n)

\* len() of one atom and of a text
AtomLen(a) == IF IsFiller(a) THEN CHOOSE n \in FillerLens : a = Filler(n) ELSE Len(a)
RECURSIVE TextLen(_)
TextLen(s) == IF s = <<>> THEN 0 ELSE AtomLen(Head(s)) + TextLen(Tail(s))

\* output_text[:n], by characters
RECURSIVE TakeChars(_, _)
TakeChars(s, n) ==
    IF s = <<>> \/ n <= 0 THEN <<>>
    ELSE IF AtomLen(Head(s)) <= n
         THEN <<Head(s)>> \o TakeChars(Tail(s), n - AtomLen(Head(s)))
         ELSE IF IsFiller(Head(s)) THEN <<Filler(n)>> ELSE <<SubSeq(Head(s), 1, n)>>

\* line 166: output_text[:10000], the text persisted with the step
PersistedOutput(output_text) == TakeChars(output_text, DB_OUTPUT_CAP)

\* mutant: one cap for both
SummaryOutputSharedCap(output_text) == TakeChars(output_text, DB_OUTPUT_CAP)

\* line 176: output_text[:2000], the text in steps_executed
SummaryOutput(output_text) == TakeChars(output_text, API_OUTPUT_CAP)

\* the prompts a run is started with: one per class of the heuristic
RunPrompts == { p \in Prompts : p.words = 1 /\ ~p.image /\ ~p.moderate }

step == plan.steps[idx]

planner_vars == <<plan_len, plan, planning_calls, planning_reply>>
runner_vars == <<idx, resolved_args, result, step_outputs, step_results,
                 total_tokens, models_used, calls, db, returned>>
config_vars == <<tools, retry_enabled, max_steps, prompt>>
input_vars == <<config_vars, memory_context>>
harness_vars == <<fin, fout>>
conc_vars == <<reqs, in_flight>>

\* what get_session_context gives run: the formatted exchanges, or "" when the
\* fetch failed (memory.py lines 69-71)
NoContext == [failed |-> FALSE, text |-> <<>>]
ContextOutcomes ==
    { [failed |-> FALSE, text |-> <<"User: ", "hi", "\n", "AI: ", "hello">>],
      [failed |-> TRUE, text |-> <<>>] }

\* line 103: await self.memory.get_session_context(db, session_id).  The
\* context (empty when the fetch fails) only enters the planning prompt.
FetchContext ==
    /\ pc = "context"
    /\ memory_context' \in ContextOutcomes
    /\ pc' = "plan"
    /\ UNCHANGED <<conc_vars, config_vars, planner_vars, runner_vars, harness_vars>>

\* Planner.create_plan, fast path: no planning call
PlanSimple ==
    /\ pc = "plan"
    /\ classify_task_complexity_keywords(prompt) = "simple"
    /\ plan' = create_simple_plan(prompt, classify_task_complexity_keywords(prompt))
    /\ plan_len' = Len(plan'.steps)
    /\ pc' = "planned"
    /\ UNCHANGED <<conc_vars, input_vars, planning_calls, planning_reply, runner_vars, harness_vars>>

\* Planner.create_plan, AI path: one gemini.generate call inside the try
PlanAI ==
    /\ pc = "plan"
    /\ classify_task_complexity_keywords(prompt) # "simple"
    /\ \E gen \in GenOutcomes :
          /\ plan' = create_ai_plan(prompt, classify_task_complexity_keywords(prompt), gen)
          /\ planning_reply' = [kind |-> gen.kind, form |-> gen.form,
                               complexity |-> gen.data.complexity,
                               tokens_used |-> gen.tokens_used]
    /\ planning_calls' = planning_calls + 1
    /\ plan_len' = Len(plan'.steps)
    /\ pc' = "planned"
    /\ UNCHANGED <<conc_vars, input_vars, runner_vars, harness_vars>>

\* mutant: the slice keeps one step too many
CappedOffByOne(p, cap) ==
    IF Len(p.steps) > cap THEN [p EXCEPT !.steps = Take(p.steps, cap + 1)] ELSE p

\* lines 113-114: plan.steps = plan.steps[:max_steps]
Capped(p, cap) == IF Len(p.steps) > cap THEN [p EXCEPT !.steps = Take(p.steps, cap)] ELSE p

\* mutant: a create_request fault is logged and the request goes on
CreateRequestBestEffort ==
    /\ pc = "planned"
    /\ plan' = Capped(plan, max_steps)
    /\ db' \in {[db EXCEPT !.request = TRUE], db}
    /\ pc' = "store_plan"
    /\ UNCHANGED <<conc_vars, input_vars, plan_len, planning_calls, planning_reply, idx, resolved_args, result,
                   step_outputs, step_results, total_tokens, models_used, calls,
                   returned, harness_vars>>

\* lines 112-125: cap the plan, then await queries.create_request; the store
\* answers or raises, and a raise leaves run
CreateRequest ==
    /\ pc = "planned"
    /\ plan' = Capped(plan, max_steps)
    /\ \/ /\ db' = [db EXCEPT !.request = TRUE]
          /\ pc' = "store_plan"
          /\ returned' = returned
       \/ /\ db' = db
          /\ pc' = "raised"
          /\ returned' = Raised("create_request")
    /\ UNCHANGED <<conc_vars, input_vars, plan_len, planning_calls, planning_reply, idx, resolved_args, result,
                   step_outputs, step_results, total_tokens, models_used, calls,
                   harness_vars>>

\* lines 127-134: _store_plan calls queries.store_agent_plan, which
\* db/queries.py does not define: the AttributeError is caught and logged, so
\* no plan is ever stored; then the loop state is initialised
StorePlan ==
    /\ pc = "store_plan"
    /\ db' = db
    /\ step_results' = <<>>
    /\ step_outputs' = EmptyMap
    /\ total_tokens' = PlanningTokens(plan)
    /\ models_used' = {}
    /\ idx' = 1
    /\ pc' = IF Len(plan.steps) >= 1 THEN "execute" ELSE "create_response"
    /\ UNCHANGED <<conc_vars, input_vars, planner_vars, resolved_args, result,
                   calls, returned, harness_vars>>

\* the history entry of one registry.execute call
Call(i, tool_name, args, success, invoked) ==
    [idx |-> i, tool_name |-> tool_name, args |-> args, success |-> success,
     invoked |-> invoked]

\* mutant: only successful steps are counted
AddTokensOfSuccess(total, r) == IF r.success THEN total + r.tokens_used ELSE total

\* line 153: total_tokens += result.tokens_used
AddTokens(total, r) == total + r.tokens_used

\* mutant: an output already recorded under the step_id is kept
StoreOutputKeepFirst(outs, step_id, output_text) == outs @@ (step_id :> output_text)

\* line 152: step_outputs[step.step_id] = output_text
StoreOutput(outs, step_id, output_text) == (step_id :> output_text) @@ outs

\* lines 145-157, once _execute_with_retry has returned r for the current step
Record(r) ==
    /\ step_outputs' = StoreOutput(step_outputs, step.step_id, OutputText(r))
    /\ total_tokens' = AddTokens(total_tokens, r)
    /\ models_used' = models_used \cup
          { IF r.metadata.model.t # "none" THEN r.metadata.model.s ELSE <<step.tool_name>> }
    /\ pc' = "create_step"

\* mutant: the tokens of a first attempt that is retried are counted too
ExecuteFirstCounting ==
    /\ pc = "execute"
    /\ IF ~IsMapping(step.args)
       THEN /\ pc' = "raised"
            /\ returned' = Raised("resolve_args")
            /\ UNCHANGED <<resolved_args, result, calls, step_outputs,
                           total_tokens, models_used>>
       ELSE IF ~Binds(resolve_args(step.args, step_outputs))
       THEN /\ resolved_args' = resolve_args(step.args, step_outputs)
            /\ pc' = "raised"
            /\ returned' = Raised("execute_binding")
            /\ UNCHANGED <<result, calls, step_outputs, total_tokens, models_used>>
       ELSE /\ resolved_args' = resolve_args(step.args, step_outputs)
            /\ \E body \in ToolBodies :
                  /\ result' = RegistryExecute(tools, step.tool_name, body)
                  /\ calls' = Append(calls, Call(idx, step.tool_name, resolved_args',
                                                 result'.success,
                                                 Invoked(tools, step.tool_name)))
            /\ IF RetryWanted(result', retry_enabled)
               THEN /\ pc' = "retry"
                    /\ total_tokens' = AddTokens(total_tokens, result')
                    /\ UNCHANGED <<step_outputs, models_used>>
               ELSE Record(result')
            /\ returned' = returned
    /\ UNCHANGED <<conc_vars, input_vars, planner_vars, idx, step_results, db,
                   harness_vars>>

\* lines 140-143 and 232: resolve the args and make the first registry call.
\* _resolve_args is called outside any try: args.items() on a value that is
\* no mapping raises and the exception leaves run
ExecuteFirst ==
    /\ pc = "execute"
    /\ IF ~IsMapping(step.args)
       THEN /\ pc' = "raised"
            /\ returned' = Raised("resolve_args")
            /\ UNCHANGED <<resolved_args, result, calls, step_outputs,
                           total_tokens, models_used>>
       ELSE IF ~Binds(resolve_args(step.args, step_outputs))
       THEN /\ resolved_args' = resolve_args(step.args, step_outputs)
            /\ pc' = "raised"
            /\ returned' = Raised("execute_binding")
            /\ UNCHANGED <<result, calls, step_outputs, total_tokens, models_used>>
       ELSE /\ resolved_args' = resolve_args(step.args, step_outputs)
            /\ \E body \in ToolBodies :
                  /\ result' = RegistryExecute(tools, step.tool_name, body)
                  /\ calls' = Append(calls, Call(idx, step.tool_name, resolved_args',
                                                 result'.success,
                                                 Invoked(tools, step.tool_name)))
            /\ IF RetryWanted(result', retry_enabled)
               THEN /\ pc' = "retry"
                    /\ UNCHANGED <<step_outputs, total_tokens, models_used>>
               ELSE Record(result')
            /\ returned' = returned
    /\ UNCHANGED <<conc_vars, input_vars, planner_vars, idx, step_results, db,
                   harness_vars>>

\* mutant: a step that fails again is retried a second time
ExecuteRetryTwice ==
    /\ pc = "retry"
    /\ \E body \in ToolBodies :
          /\ result' = RegistryExecute(tools, step.tool_name, body)
          /\ calls' = Append(calls, Call(idx, step.tool_name, resolved_args,
                                         result'.success,
                                         Invoked(tools, step.tool_name)))
    /\ IF ~result'.success /\ Len(SelectSeq(calls, LAMBDA c : c.idx = idx)) < 2
       THEN /\ pc' = "retry"
            /\ UNCHANGED <<step_outputs, total_tokens, models_used>>
       ELSE Record(result')
    /\ UNCHANGED <<conc_vars, input_vars, planner_vars, idx, resolved_args,
                   step_results, db, returned, harness_vars>>

\* line 236: the one retry, with the same args
ExecuteRetry ==
    /\ pc = "retry"
    /\ \E body \in ToolBodies :
          /\ result' = RegistryExecute(tools, step.tool_name, body)
          /\ calls' = Append(calls, Call(idx, step.tool_name, resolved_args,
                                         result'.success,
                                         Invoked(tools, step.tool_name)))
    /\ Record(result')
    /\ UNCHANGED <<conc_vars, input_vars, planner_vars, idx, resolved_args,
                   step_results, db, returned, harness_vars>>

\* the entry appended to step_results for the current step
StepSummary(r, output_text) ==
    [step_id |-> step.step_id, tool_name |-> step.tool_name, success |-> r.success,
     output |-> SummaryOutput(output_text), error |-> r.error,
     tokens_used |-> r.tokens_used]

\* lines 159-183: await queries.create_step (it answers or raises), then
\* append the step's summary and go on with the next step
CreateStep ==
    /\ pc = "create_step"
    /\ \/ /\ db' = [db EXCEPT !.steps =
                       Append(@, [tool_name |-> step.tool_name,
                                  output_text |-> PersistedOutput(OutputText(result)),
                                  tokens_used |-> result.tokens_used])]
          /\ step_results' = Append(step_results, StepSummary(result, OutputText(result)))
          /\ idx' = idx + 1
          /\ pc' = IF idx < Len(plan.steps) THEN "execute" ELSE "create_response"
          /\ returned' = returned
       \/ /\ pc' = "raised"
          /\ returned' = Raised("create_step")
          /\ UNCHANGED <<db, step_results, idx>>
    /\ UNCHANGED <<conc_vars, input_vars, planner_vars, resolved_args, result,
                   step_outputs, total_tokens, models_used, calls, harness_vars>>

\* lines 185-203: compile the response, then await queries.create_response
CreateResponse ==
    /\ pc = "create_response"
    /\ \/ /\ db' = [db EXCEPT !.response = Str(compile_response(step_outputs))]
          /\ pc' = "store_interaction"
          /\ returned' = returned
       \/ /\ pc' = "raised"
          /\ returned' = Raised("create_response")
          /\ db' = db
    /\ UNCHANGED <<conc_vars, input_vars, planner_vars, idx, resolved_args, result,
                   step_outputs, step_results, total_tokens, models_used, calls,
                   harness_vars>>

\* mutant: a failure of the memory store leaves run
StoreInteractionFatal ==
    /\ pc = "store_interaction"
    /\ \/ /\ db' = [db EXCEPT !.interaction = TRUE]
          /\ returned' = [kind |-> "result",
                          response |-> compile_response(step_outputs),
                          steps_executed |-> step_results,
                          total_tokens |-> total_tokens,
                          models_used |-> models_used]
          /\ pc' = "done"
       \/ /\ db' = db
          /\ returned' = Raised("store_interaction")
          /\ pc' = "raised"
    /\ UNCHANGED <<conc_vars, input_vars, planner_vars, idx, resolved_args, result,
                   step_outputs, step_results, total_tokens, models_used, calls,
                   harness_vars>>

\* lines 205-226: store_interaction swallows a failure of the store; run
\* returns the AgentResult
StoreInteraction ==
    /\ pc = "store_interaction"
    /\ \E stored \in BOOLEAN : db' = [db EXCEPT !.interaction = stored]
    /\ returned' = [kind |-> "result",
                    response |-> compile_response(step_outputs),
                    steps_executed |-> step_results,
                    total_tokens |-> total_tokens,
                    models_used |-> models_used]
    /\ pc' = "done"
    /\ UNCHANGED <<conc_vars, input_vars, planner_vars, idx, resolved_args, result,
                   step_outputs, step_results, total_tokens, models_used, calls,
                   harness_vars>>

\* the state of a request before run has done anything
NothingRunYet ==
    /\ memory_context = NoContext
    /\ plan_len = 0
    /\ plan = NoPlan
    /\ planning_calls = 0
    /\ planning_reply = NoReply
    /\ idx = 0
    /\ resolved_args = NoArgs
    /\ result = NoResult
    /\ step_outputs = EmptyMap
    /\ step_results = <<>>
    /\ total_tokens = 0
    /\ models_used = {}
    /\ calls = <<>>
    /\ db = EmptyDb
    /\ returned = NotReturned
    /\ reqs = <<>>
    /\ in_flight = {}

\* a request arrives: the registry holds the built-in tools, the two settings
\* have their configured values
Init ==
    /\ pc = "context"
    /\ tools = BuiltinTools
    /\ retry_enabled \in BOOLEAN
    /\ max_steps \in 1..MaxCap
    /\ prompt \in RunPrompts
    /\ NothingRunYet
    /\ fin = NoFin
    /\ fout = NoFin

Next ==
    \/ FetchContext
    \/ PlanSimple
    \/ PlanAI
    \/ CreateRequest
    \/ StorePlan
    \/ ExecuteFirst
    \/ ExecuteRetry
    \/ CreateStep
    \/ CreateResponse
    \/ StoreInteraction

Spec == Init /\ [][Next]_vars

-----------------------------------------------------------------------------
(* Planner.create_plan on its own, for every prompt *)

\* the default of settings.AGENT_MAX_STEPS
AGENT_MAX_STEPS == 10

InitPlanner ==
    /\ pc = "plan"
    /\ tools = BuiltinTools
    /\ retry_enabled = TRUE
    /\ max_steps = AGENT_MAX_STEPS
    /\ prompt \in Prompts
    /\ NothingRunYet
    /\ fin = NoFin
    /\ fout = NoFin

NextPlanner == PlanSimple \/ PlanAI

SpecPlanner == InitPlanner /\ [][NextPlanner]_vars

-----------------------------------------------------------------------------
(* ToolRegistry on its own: register, unregister, execute *)

ToolNames == {"llm_generate", "send_email", "echo"}
ToolPool == [name : ToolNames, obj : {"T1", "T2"}]

RegistryOp(op, name, obj, body, before) ==
    [op |-> op, name |-> name, obj |-> obj, body |-> body, before |-> before]
Outcome(raised, invoked) == [raised |-> raised, invoked |-> invoked]

\* mutant: a tool object already bound under some name is refused as well
register_once_per_object(ts, tool) ==
    IF Registered(ts, tool.name) \/ (\E i \in 1..Len(ts) : ts[i].obj = tool.obj)
    THEN ts ELSE Append(ts, tool)

\* mutant: a taken name is bound to the new tool
register_overwriting(ts, tool) ==
    IF Registered(ts, tool.name)
    THEN [i \in 1..Len(ts) |-> IF ts[i].name = tool.name THEN tool ELSE ts[i]]
    ELSE Append(ts, tool)

\* ToolRegistry.register(tool): ValueError when the name is taken
register(ts, tool) == IF Registered(ts, tool.name) THEN ts ELSE Append(ts, tool)

\* mutant: the named binding goes, and every binding made after it
unregister_and_later(ts, name) ==
    IF Registered(ts, name)
    THEN SubSeq(ts, 1, (CHOOSE i \in 1..Len(ts) : ts[i].name = name) - 1)
    ELSE ts

\* ToolRegistry.unregister(name)
RECURSIVE unregister(_, _)
unregister(ts, name) ==
    IF ts = <<>> THEN <<>>
    ELSE (IF Head(ts).name = name THEN <<>> ELSE <<Head(ts)>>) \o unregister(Tail(ts), name)

Register ==
    /\ pc = "registry"
    /\ \E tool \in ToolPool :
          /\ tools' = register(tools, tool)
          /\ fout' = Outcome(Registered(tools, tool.name), <<>>)
          /\ fin' = RegistryOp("register", tool.name, tool.obj, Returns(NoResult), tools)
    /\ UNCHANGED <<conc_vars, pc, retry_enabled, max_steps, prompt, memory_context, planner_vars, runner_vars>>

Unregister ==
    /\ pc = "registry"
    /\ \E name \in ToolNames :
          /\ tools' = unregister(tools, name)
          /\ fout' = Outcome(FALSE, <<>>)
          /\ fin' = RegistryOp("unregister", name, "", Returns(NoResult), tools)
    /\ UNCHANGED <<conc_vars, pc, retry_enabled, max_steps, prompt, memory_context, planner_vars, runner_vars>>

Execute ==
    /\ pc = "registry"
    /\ \E name \in ToolNames, body \in ToolBodies :
          /\ result' = RegistryExecute(tools, name, body)
          /\ fout' = Outcome(FALSE, Invoked(tools, name))
          /\ fin' = RegistryOp("execute", name,
                               IF Registered(tools, name) THEN Lookup(tools, name) ELSE "",
                               body, tools)
    /\ UNCHANGED <<conc_vars, pc, tools, retry_enabled, max_steps, prompt, memory_context, planner_vars, idx,
                   resolved_args, step_outputs, step_results, total_tokens, models_used,
                   calls, db, returned>>

InitRegistry ==
    /\ pc = "registry"
    /\ tools = <<>>
    /\ retry_enabled = TRUE
    /\ max_steps = AGENT_MAX_STEPS
    /\ prompt \in { p \in Prompts : p.words = 0 }
    /\ NothingRunYet
    /\ fin = NoFin
    /\ fout = NoFin

NextRegistry == Register \/ Unregister \/ Execute

SpecRegistry == InitRegistry /\ [][NextRegistry]_vars

-----------------------------------------------------------------------------
(* _resolve_args and _compile_response on their own *)

\* argument texts: plain, with references to steps 0, 1 and 2, with a
\* reference written with a leading zero, and with a near miss of the pattern
ArgTexts == { <<"plain">>,
              <<"use ", "{step_0_output}">>,
              <<"{step_1_output}", " and ", "{step_0_output}">>,
              <<"{step_2_output}", "!">>,
              <<"{step_01_output}">>,
              <<"{step_x_output}">> }

\* recorded outputs: an answer, an error marker, the empty text, a text that
\* only starts like a marker, and an answer that holds a reference pattern
OutTexts == { <<"X">>, <<"[ERROR]", " ", "boom">>, <<>>, <<"[ERROR]", "x">>,
              <<"see ", "{step_0_output}">> }

Maps(ids, texts) == UNION { [d -> texts] : d \in SUBSET ids }

ResolveInputs ==
    { [args |-> [prompt |-> Str(v), subject |-> Str(w), temperature |-> Obj(<<"0.4">>)],
       outs |-> m] :
         v \in ArgTexts, w \in {<<"plain">>, <<"{step_1_output}">>},
         m \in Maps({0, 1}, OutTexts \ {<<"[ERROR]", "x">>}) }

InitResolve ==
    /\ pc = "resolve"
    /\ tools = BuiltinTools
    /\ retry_enabled = TRUE
    /\ max_steps = AGENT_MAX_STEPS
    /\ prompt \in { p \in Prompts : p.words = 0 }
    /\ NothingRunYet
    /\ fin \in ResolveInputs
    /\ fout = NoFin

\* mutant: the templates are resolved in place, in the dict that was passed
resolve_args_in_place(args, outs) ==
    [resolved |-> resolve_args(args, outs), args |-> resolve_args(args, outs),
     outs |-> outs]

\* one call of _resolve_args: what it returns, and the two dicts it was given
\* as they are after the call (resolved is a new dict, lines 244 and 255; args
\* and step_outputs are only read)
resolve_args_call(args, outs) ==
    [resolved |-> resolve_args(args, outs), args |-> args, outs |-> outs]

ResolveArgs ==
    /\ pc = "resolve"
    /\ LET call == resolve_args_call(fin.args, fin.outs) IN
          /\ fout' = call.resolved
          /\ fin' = [args |-> call.args, outs |-> call.outs]
    /\ pc' = "resolved"
    /\ UNCHANGED <<conc_vars, input_vars, planner_vars, runner_vars>>

SpecResolve == InitResolve /\ [][ResolveArgs]_vars

CompileInputs == { [outs |-> m] : m \in Maps({0, 1, 2}, OutTexts \ {<<"see ", "{step_0_output}">>}) }

InitCompile ==
    /\ pc = "compile"
    /\ tools = BuiltinTools
    /\ retry_enabled = TRUE
    /\ max_steps = AGENT_MAX_STEPS
    /\ prompt \in { p \in Prompts : p.words = 0 }
    /\ NothingRunYet
    /\ fin \in CompileInputs
    /\ fout = NoFin

CompileResponse ==
    /\ pc = "compile"
    /\ fout' = compile_response(fin.outs)
    /\ pc' = "compiled"
    /\ UNCHANGED <<conc_vars, input_vars, planner_vars, runner_vars, fin>>

SpecCompile == InitCompile /\ [][CompileResponse]_vars

-----------------------------------------------------------------------------
(* Several AgentRunner.run coroutines interleaved at their awaits.  The event *)
(* loop runs one coroutine at a time and switches only at an await; the      *)
(* registry, the planner and the runner object are shared, everything else   *)
(* is a local of the coroutine.                                              *)

\* number of requests in progress at the same time
NumRequests == 2

\* the text that tells the requests apart: it is in the prompt of request r,
\* so in the planning reply and in the answers of the tools called for r
Tag(r) == <<"alpha", "beta", "gamma", "delta">>[r]

\* the locals of a run coroutine on entry; invoked and log are history: the
\* step of each registry call started, and the final result of each step
NewRequest ==
    [pc |-> "plan", plan |-> NoPlan, idx |-> 0, attempt |-> 0,
     resolved_args |-> NoArgs, step_outputs |-> EmptyMap, step_results |-> <<>>,
     total_tokens |-> 0, invoked |-> <<>>, log |-> <<>>, returned |-> NotReturned]

\* the steps the planning model writes for request r: step_id 1 listed with a
\* dependency on step 0, and step_id 0 with a dependency on step 1
ConcSteps(r) ==
    { RawStep(TRUE, 1, TRUE, "llm_generate",
              [prompt |-> Str(<<"ask ", Tag(r), StepRef(0)>>)], <<0>>),
      RawStep(TRUE, 0, TRUE, "llm_generate",
              [prompt |-> Str(<<"ask ", Tag(r)>>)], <<1>>) }

ConcGenOutcomes(r) ==
    { GenRaises }
    \cup { GenReturns("json", JsonDict(TRUE, ss, "absent")) :
             ss \in SeqsUpTo(ConcSteps(r), MaxCap) }

\* what a tool does when called with the arguments of request r
ConcBodies(r) ==
    { Returns(ToolResult(TRUE, Str(<<"answer ", Tag(r)>>), None, r, NoMetadata)),
      Returns(ToolResult(FALSE, None, Str(<<"failed ", Tag(r)>>), 0, NoMetadata)) }

\* mutant: the steps are taken in the order of their step_id
StepAtById(p, i) ==
    LET before(j) == Cardinality({ k \in 1..Len(p.steps) :
                        \/ p.steps[k].step_id < p.steps[j].step_id
                        \/ (p.steps[k].step_id = p.steps[j].step_id /\ k < j) })
    IN  p.steps[CHOOSE j \in 1..Len(p.steps) : before(j) = i - 1]

\* for step in plan.steps: the step at position i of the list
StepAt(p, i) == p.steps[i]

\* mutant: one mapping is shared by every request in progress
StepOutputsShared(rs, r) ==
    LET others == { q \in 1..Len(rs) : q # r } IN
    IF others = {} THEN rs[r].step_outputs
    ELSE rs[r].step_outputs @@ rs[CHOOSE q \in others : TRUE].step_outputs

\* the step_outputs a coroutine reads and writes: its own local mapping
StepOutputsOf(rs, r) == rs[r].step_outputs

\* a request arrives: the endpoint starts a new run coroutine
ConcArrive ==
    /\ pc = "serving"
    /\ Len(reqs) < NumRequests
    /\ reqs' = Append(reqs, NewRequest)
    /\ UNCHANGED <<pc, input_vars, planner_vars, runner_vars, harness_vars, in_flight>>

\* lines 100-134 of request r: context, create_plan (the request's own planning
\* call), the cap, create_request and _store_plan, the loop state
ConcPlan(r) ==
    /\ pc = "serving"
    /\ reqs[r].pc = "plan"
    /\ \E gen \in ConcGenOutcomes(r) :
          LET p == Capped(create_ai_plan(prompt, classify_task_complexity_keywords(prompt),
                                         gen), max_steps) IN
          reqs' = [reqs EXCEPT ![r].plan = p,
                               ![r].total_tokens = PlanningTokens(p),
                               ![r].idx = 1,
                               ![r].attempt = 1,
                               ![r].pc = IF Len(p.steps) >= 1 THEN "execute" ELSE "finish"]
    /\ UNCHANGED <<pc, input_vars, planner_vars, runner_vars, harness_vars, in_flight>>


\* a registry call being awaited: whose it is, for which position of the plan,
\* and whether it is the first call or the retry
Invocation(r, i, attempt) == [req |-> r, idx |-> i, attempt |-> attempt]

\* lines 140-143 and 232 (first call) or 236 (retry) of request r: the
\* coroutine calls registry.execute and is suspended until the tool returns
ConcStart(r) ==
    /\ pc = "serving"
    /\ reqs[r].pc = "execute"
    /\ LET st == StepAt(reqs[r].plan, reqs[r].idx)
           args == IF reqs[r].attempt = 1
                   THEN resolve_args(st.args, StepOutputsOf(reqs, r))
                   ELSE reqs[r].resolved_args
       IN  reqs' = [reqs EXCEPT ![r].resolved_args = args,
                                ![r].invoked = Append(@, [idx |-> reqs[r].idx,
                                                          step_id |-> st.step_id]),
                                ![r].pc = "awaiting"]
    /\ in_flight' = in_flight \cup {Invocation(r, reqs[r].idx, reqs[r].attempt)}
    /\ UNCHANGED <<pc, input_vars, planner_vars, runner_vars, harness_vars>>

\* the awaited call of request r returns; lines 234-238 and 145-157: the
\* retry is started, or the result is recorded in the request's own locals
ConcReturn(r) ==
    /\ pc = "serving"
    /\ reqs[r].pc = "awaiting"
    /\ in_flight' = in_flight \ {Invocation(r, reqs[r].idx, reqs[r].attempt)}
    /\ \E body \in ConcBodies(r) :
          LET st == StepAt(reqs[r].plan, reqs[r].idx)
              res == RegistryExecute(tools, st.tool_name, body)
          IN  IF reqs[r].attempt = 1 /\ RetryWanted(res, retry_enabled)
              THEN reqs' = [reqs EXCEPT ![r].attempt = 2, ![r].pc = "execute"]
              ELSE reqs' = [reqs EXCEPT
                      ![r].step_outputs =
                          (st.step_id :> OutputText(res)) @@ StepOutputsOf(reqs, r),
                      ![r].total_tokens = AddTokens(@, res),
                      ![r].log = Append(@, res),
                      ![r].pc = "create_step"]
    /\ UNCHANGED <<pc, input_vars, planner_vars, runner_vars, harness_vars>>

\* lines 159-183 of request r: await queries.create_step (it answers or
\* raises), append the summary, go on with the next step of the list
ConcCreateStep(r) ==
    /\ pc = "serving"
    /\ reqs[r].pc = "create_step"
    /\ LET st == StepAt(reqs[r].plan, reqs[r].idx)
           res == reqs[r].log[Len(reqs[r].log)]
       IN  \/ reqs' = [reqs EXCEPT
                  ![r].step_results =
                      Append(@, [step_id |-> st.step_id, tool_name |-> st.tool_name,
                                 success |-> res.success,
                                 output |-> SummaryOutput(OutputText(res)),
                                 error |-> res.error, tokens_used |-> res.tokens_used]),
                  ![r].idx = @ + 1,
                  ![r].attempt = 1,
                  ![r].pc = IF reqs[r].idx < Len(reqs[r].plan.steps)
                            THEN "execute" ELSE "finish"]
           \/ reqs' = [reqs EXCEPT ![r].pc = "raised",
                                   ![r].returned = Raised("create_step")]
    /\ UNCHANGED <<pc, input_vars, planner_vars, runner_vars, harness_vars, in_flight>>

\* lines 185-226 of request r: compile the response, create_response,
\* store_interaction, return the AgentResult
ConcFinish(r) ==
    /\ pc = "serving"
    /\ reqs[r].pc = "finish"
    /\ reqs' = [reqs EXCEPT
          ![r].returned = [kind |-> "result",
                           response |-> compile_response(StepOutputsOf(reqs, r)),
                           steps_executed |-> reqs[r].step_results,
                           total_tokens |-> reqs[r].total_tokens,
                           models_used |-> {}],
          ![r].pc = "done"]
    /\ UNCHANGED <<pc, input_vars, planner_vars, runner_vars, harness_vars, in_flight>>

\* the service is up: the registry holds the built-in tools, no request yet
InitConc ==
    /\ pc = "serving"
    /\ tools = BuiltinTools
    /\ retry_enabled \in BOOLEAN
    /\ max_steps = MaxCap
    /\ prompt \in { p \in RunPrompts : p.complex }
    /\ NothingRunYet
    /\ fin = NoFin
    /\ fout = NoFin

NextConc ==
    \/ ConcArrive
    \/ \E r \in 1..Len(reqs) :
          \/ ConcPlan(r)
          \/ ConcStart(r)
          \/ ConcReturn(r)
          \/ ConcCreateStep(r)
          \/ ConcFinish(r)

SpecConc == InitConc /\ [][NextConc]_vars

-----------------------------------------------------------------------------
(* classify_task_complexity_keywords on its own *)

\* prompts on both sides of, and next to, the two word-count thresholds
ClassifyPrompts ==
    { p \in [image : BOOLEAN, complex : BOOLEAN, moderate : BOOLEAN,
             words : WordCounts \cup {MODERATE_WORDS - 1, COMPLEX_WORDS - 1}] :
        (p.image \/ p.complex \/ p.moderate) => p.words >= 1 }

InitClassify ==
    /\ pc = "classify"
    /\ tools = BuiltinTools
    /\ retry_enabled = TRUE
    /\ max_steps = AGENT_MAX_STEPS
    /\ prompt \in ClassifyPrompts
    /\ NothingRunYet
    /\ fin = NoFin
    /\ fout = NoFin

Classify ==
    /\ pc = "classify"
    /\ fout' = [complexity |-> classify_task_complexity_keywords(prompt)]
    /\ pc' = "classified"
    /\ UNCHANGED <<conc_vars, input_vars, planner_vars, runner_vars, fin>>

SpecClassify == InitClassify /\ [][Classify]_vars

-----------------------------------------------------------------------------
(* EmailTool.execute under _execute_with_retry (tools/email_tool.py) *)

\* what the plan can put into an argument of send_email: the key is absent
\* (kwargs.get gives None), an empty string, or a text
EmailValues == {None, Str(<<>>), Str(<<"ada@example.org">>)}
EmailArgs == [to_email : EmailValues, subject : EmailValues, body : EmailValues]

\* how one attempt to send ends: the import of the email service fails, or
\* _send_email_resend returns True, returns False, or raises
ServiceOutcomes == {"unavailable", "sent", "refused", "raised"}

\* line 49: not to_email or not subject or not body
EmailInvalid(kwargs) ==
    ~Truthy(kwargs.to_email) \/ ~Truthy(kwargs.subject) \/ ~Truthy(kwargs.body)

RequiredText == <<"'to_email', 'subject', and 'body' are all required">>

\* the ToolResult of the part of execute after the validation, lines 55-94
EmailSend(kwargs, service) ==
    CASE service = "sent" ->
           ToolResult(TRUE,
                      Str(<<"Email sent to ">> \o kwargs.to_email.s
                          \o <<" with subject: ">> \o kwargs.subject.s),
                      None, 0, NoMetadata)
      [] service = "refused" ->
           ToolResult(FALSE, None,
                      Str(<<"Email service returned failure for ">> \o kwargs.to_email.s),
                      0, NoMetadata)
      [] OTHER ->
           ToolResult(FALSE, None, Str(<<"Email sending failed: ", service>>),
                      0, NoMetadata)

\* mutant: the service is called first and the arguments are looked at after
email_execute_send_first(kwargs, service) ==
    [res |-> IF EmailInvalid(kwargs)
             THEN ToolResult(FALSE, None, Str(RequiredText), 0, NoMetadata)
             ELSE EmailSend(kwargs, service),
     service_calls |-> IF service = "unavailable" THEN 0 ELSE 1]

\* EmailTool.execute: the ToolResult and the number of calls of
\* _send_email_resend it made
email_execute(kwargs, service) ==
    IF EmailInvalid(kwargs)
    THEN [res |-> ToolResult(FALSE, None, Str(RequiredText), 0, NoMetadata),
          service_calls |-> 0]
    ELSE [res |-> EmailSend(kwargs, service),
          service_calls |-> IF service = "unavailable" THEN 0 ELSE 1]

InitEmail ==
    /\ pc = "email"
    /\ tools = BuiltinTools
    /\ retry_enabled \in BOOLEAN
    /\ max_steps = AGENT_MAX_STEPS
    /\ prompt \in { p \in Prompts : p.words = 0 }
    /\ NothingRunYet
    /\ fin \in EmailArgs
    /\ fout = [attempts |-> 0, service_calls |-> 0]

\* the requires_confirmation flag the built-in tools are constructed with
requires_confirmation(obj) == obj = "EmailTool"

\* Tool.to_schema(): the name and the flag (the other entries are not tracked)
to_schema(tool) ==
    [name |-> tool.name, requires_confirmation |-> requires_confirmation(tool.obj)]

ConfirmationText == <<"Tool 'send_email' requires confirmation">>

\* mutant: a tool flagged requires_confirmation is not run by the registry
EmailAttemptConfirming(service) ==
    LET e == email_execute(fin, service)
        held == requires_confirmation(Lookup(tools, "send_email"))
    IN
    /\ result' = IF held
                 THEN ToolResult(FALSE, None, Str(ConfirmationText), 0, NoMetadata)
                 ELSE RegistryExecute(tools, "send_email", Returns(e.res))
    /\ fout' = [attempts |-> fout.attempts + 1,
                service_calls |-> fout.service_calls + (IF held THEN 0 ELSE e.service_calls)]

\* one registry.execute("send_email", **fin) made by _execute_with_retry
EmailAttempt(service) ==
    LET e == email_execute(fin, service) IN
    /\ result' = RegistryExecute(tools, "send_email", Returns(e.res))
    /\ fout' = [attempts |-> fout.attempts + 1,
                service_calls |-> fout.service_calls + e.service_calls]

\* line 232: the first attempt
EmailFirst ==
    /\ pc = "email"
    /\ \E service \in ServiceOutcomes : EmailAttempt(service)
    /\ pc' = IF RetryWanted(result', retry_enabled) THEN "email_retry" ELSE "emailed"
    /\ UNCHANGED <<conc_vars, input_vars, planner_vars, idx, resolved_args,
                   step_outputs, step_results, total_tokens, models_used, calls,
                   db, returned, fin>>

\* lines 234-236: the one retry, with the same arguments
EmailRetry ==
    /\ pc = "email_retry"
    /\ \E service \in ServiceOutcomes : EmailAttempt(service)
    /\ pc' = "emailed"
    /\ UNCHANGED <<conc_vars, input_vars, planner_vars, idx, resolved_args,
                   step_outputs, step_results, total_tokens, models_used, calls,
                   db, returned, fin>>

NextEmail == EmailFirst \/ EmailRetry

SpecEmail == InitEmail /\ [][NextEmail]_vars

-----------------------------------------------------------------------------
(* MemoryManager.get_session_context (memory.py).  A text is known here by   *)
(* its number of characters; the context returned is the sequence of its     *)
(* pieces, blocks and separators, each with its length.                      *)

\* most exchanges a session holds in the store
MaxExchanges == 11

\* the defaults of limit and max_chars, and the cut of a prompt or response
CONTEXT_LIMIT == 10
CONTEXT_MAX_CHARS == 3000
EXCHANGE_CAP == 500
\* len("User: "), len("AI: "), len("\n") and len("\n---\n")
USER_LABEL == 6
AI_LABEL == 4
NEWLINE == 1
SEPARATOR == 5

\* a stored exchange, by the lengths of its prompt and its response
Exchange(p, r) == [prompt |-> p, response |-> r]
ExchangeKinds == { Exchange(495, 494), Exchange(2, 700) }

\* the documents of a session, oldest first
StoredExchanges == SeqsUpTo(ExchangeKinds, MaxExchanges)

Reverse(q) == [i \in 1..Len(q) |-> q[Len(q) + 1 - i]]

\* lines 40-46: find(...).sort("created_at", -1).limit(limit), on documents
\* numbered by their age rank; the newest comes first
Fetch(stored, limit) ==
    [i \in 1..Min(Len(stored), limit) |->
        [at |-> Len(stored) + 1 - i, doc |-> stored[Len(stored) + 1 - i]]]

\* lines 58-60: len(block)
BlockLen(doc) ==
    USER_LABEL + Min(doc.prompt, EXCHANGE_CAP) + NEWLINE
    + AI_LABEL + Min(doc.response, EXCHANGE_CAP)

\* lines 55-65: the loop over the exchanges from position i on, with the
\* blocks kept so far and their total_chars
RECURSIVE Blocks(_, _, _, _, _)
Blocks(exchanges, i, lines, total_chars, max_chars) ==
    IF i > Len(exchanges) THEN lines
    ELSE LET n == BlockLen(exchanges[i].doc) IN
         IF total_chars + n > max_chars THEN lines
         ELSE Blocks(exchanges, i + 1,
                     Append(lines, [kind |-> "block", at |-> exchanges[i].at, chars |-> n]),
                     total_chars + n, max_chars)

\* line 67: "\n---\n".join(lines)
RECURSIVE Join(_)
Join(lines) ==
    IF Len(lines) <= 1 THEN lines
    ELSE <<lines[1], [kind |-> "sep", at |-> 0, chars |-> SEPARATOR]>>
         \o Join(Tail(lines))

\* get_session_context(db, session_id, limit, max_chars); fails says that the
\* fetch raised
get_session_context(stored, fails, limit, max_chars) ==
    IF fails \/ stored = <<>> THEN <<>>
    ELSE Join(Blocks(Reverse(Fetch(stored, limit)), 1, <<>>, 0, max_chars))

InitContext ==
    /\ pc = "fetch"
    /\ tools = BuiltinTools
    /\ retry_enabled = TRUE
    /\ max_steps = AGENT_MAX_STEPS
    /\ prompt \in { p \in Prompts : p.words = 0 }
    /\ NothingRunYet
    /\ fin \in StoredExchanges
    /\ fout = NoFin

\* executor.py line 103 calls it with the defaults
GetSessionContext ==
    /\ pc = "fetch"
    /\ \E fails \in BOOLEAN :
          /\ fout' = get_session_context(fin, fails, CONTEXT_LIMIT, CONTEXT_MAX_CHARS)
          /\ pc' = IF fails THEN "fetch_failed" ELSE "fetched"
    /\ UNCHANGED <<conc_vars, input_vars, planner_vars, runner_vars, fin>>

SpecContext == InitContext /\ [][GetSessionContext]_vars

-----------------------------------------------------------------------------
(* AgentRunner.run on plans of MaxPlanLen listed steps, with a step cap that *)
(* lets all of them run                                                      *)

\* the llm_generate steps of RawSteps
LlmSteps == { s \in RawSteps : s.tool_name = "llm_generate" }

\* planning answers that list MaxPlanLen llm_generate steps
ListedGenOutcomes ==
    { GenReturns("json", JsonDict(TRUE, ss, "absent")) : ss \in [1..MaxPlanLen -> LlmSteps] }

InitListed ==
    /\ pc = "context"
    /\ tools = BuiltinTools
    /\ retry_enabled \in BOOLEAN
    /\ max_steps = MaxPlanLen
    /\ prompt \in { p \in RunPrompts : p.complex }
    /\ NothingRunYet
    /\ fin = NoFin
    /\ fout = NoFin

\* Planner.create_plan, AI path, for those answers
PlanListed ==
    /\ pc = "plan"
    /\ classify_task_complexity_keywords(prompt) # "simple"
    /\ \E gen \in ListedGenOutcomes :
          /\ plan' = create_ai_plan(prompt, classify_task_complexity_keywords(prompt), gen)
          /\ planning_reply' = [kind |-> gen.kind, form |-> gen.form,
                               complexity |-> gen.data.complexity,
                               tokens_used |-> gen.tokens_used]
    /\ planning_calls' = planning_calls + 1
    /\ plan_len' = Len(plan'.steps)
    /\ pc' = "planned"
    /\ UNCHANGED <<conc_vars, input_vars, runner_vars, harness_vars>>

NextListed ==
    \/ FetchContext
    \/ PlanListed
    \/ CreateRequest
    \/ StorePlan
    \/ ExecuteFirst
    \/ ExecuteRetry
    \/ CreateStep
    \/ CreateResponse
    \/ StoreInteraction

SpecListed == InitListed /\ [][NextListed]_vars

-----------------------------------------------------------------------------
(* The loop body of run for a step with a long output: what is recorded,    *)
(* what is persisted, what the next step and the response get               *)

\* final results of step 0 that carry n characters of output or of error
LongResults(n) ==
    { ToolResult(TRUE, Str(<<Filler(n)>>), None, 0, NoMetadata),
      ToolResult(FALSE, None, Str(<<Filler(n)>>), 0, NoMetadata) }

\* the step after it refers to it
TruncInputs ==
    UNION { { [chars |-> n, result |-> r,
               args |-> [prompt |-> Str(<<"use ", StepRef(0)>>)]] :
                 r \in LongResults(n) } : n \in TruncLens }

InitTrunc ==
    /\ pc = "long_step"
    /\ tools = BuiltinTools
    /\ retry_enabled = TRUE
    /\ max_steps = AGENT_MAX_STEPS
    /\ prompt \in { p \in Prompts : p.words = 0 }
    /\ NothingRunYet
    /\ fin \in TruncInputs
    /\ fout = NoFin

\* lines 145-180 for step 0
RecordLong ==
    /\ pc = "long_step"
    /\ fout' = [step_outputs |-> StoreOutput(EmptyMap, 0, OutputText(fin.result)),
                persisted |-> PersistedOutput(OutputText(fin.result)),
                summary |-> SummaryOutput(OutputText(fin.result)),
                resolved |-> NoArgs,
                response |-> <<>>]
    /\ pc' = "long_recorded"
    /\ UNCHANGED <<conc_vars, input_vars, planner_vars, runner_vars, fin>>

\* line 140 for the step after it
ResolveLong ==
    /\ pc = "long_recorded"
    /\ fout' = [fout EXCEPT !.resolved = resolve_args(fin.args, fout.step_outputs)]
    /\ pc' = "long_resolved"
    /\ UNCHANGED <<conc_vars, input_vars, planner_vars, runner_vars, fin>>

\* line 186, when step 0 was the last step or the next step's output is to come
CompileLong ==
    /\ pc \in {"long_recorded", "long_resolved"}
    /\ fout' = [fout EXCEPT !.response = compile_response(fout.step_outputs)]
    /\ pc' = "long_compiled"
    /\ UNCHANGED <<conc_vars, input_vars, planner_vars, runner_vars, fin>>

NextTrunc == RecordLong \/ ResolveLong \/ CompileLong

SpecTrunc == InitTrunc /\ [][NextTrunc]_vars

-----------------------------------------------------------------------------
(* AgentRunner.run with external calls that may never return.  run awaits   *)
(* each call without a deadline (no wait_for, no timeout argument): a call  *)
(* that hangs leaves the coroutine at that await.                           *)

\* run is at an await of an external call: the context fetch, the planning
\* call (none for a simple prompt), create_request, a tool execution,
\* create_step, create_response, store_interaction
AtExternalCall ==
    \/ pc \in {"context", "planned", "retry", "create_step", "create_response",
               "store_interaction"}
    \/ pc = "plan" /\ classify_task_complexity_keywords(prompt) # "simple"
    \/ pc = "execute" /\ IsMapping(step.args) /\ Binds(step.args)

\* the call awaited never returns
Hang ==
    /\ AtExternalCall
    /\ pc' = "hung"
    /\ UNCHANGED <<conc_vars, input_vars, planner_vars, runner_vars, harness_vars>>

NextLive == Next \/ Hang

\* the event loop resumes run whenever the call it awaits has returned
SpecLive == Init /\ [][NextLive]_vars /\ WF_vars(Next)

-----------------------------------------------------------------------------
(* Properties of AgentRunner.run *)

\* the registry calls made for the step at position i of the plan
CallsOf(i) == SelectSeq(calls, LAMBDA c : c.idx = i)

\* the steps whose _execute_with_retry has returned
Finished(i) == i < idx \/ (i = idx /\ pc = "create_step")

\* C1: a step whose tool fails on the first attempt and on the retry has a
\* recorded output beginning with "[ERROR] ", and the steps after it are still
\* executed: a run that returns has executed every step of the capped plan.
C1_FailedStepIsMarkedAndPlanGoesOn ==
    /\ (pc = "create_step" /\ ~result.success /\ Len(CallsOf(idx)) = 2)
          => StartsWith(step_outputs[step.step_id], ErrorMarker)
    /\ pc = "done" => Len(returned.steps_executed) = Len(plan.steps)

\* C2: _execute_with_retry calls the registry once when the first attempt
\* succeeds or retry is disabled, twice when the first attempt fails and retry
\* is enabled, never more; both calls carry the same tool name and resolved
\* args; the result it returns, and the runner records, is the last call's.
C2_BoundedRetry ==
    /\ pc = "retry" => /\ Len(CallsOf(idx)) = 1
                       /\ ~CallsOf(idx)[1].success
                       /\ retry_enabled
    /\ \A i \in 1..Len(plan.steps) :
          Finished(i) =>
             LET cs == CallsOf(i) IN
             /\ Len(cs) \in {1, 2}
             /\ cs[1].success => Len(cs) = 1
             /\ ~retry_enabled => Len(cs) = 1
             /\ (~cs[1].success /\ retry_enabled) => Len(cs) = 2
             /\ Len(cs) = 2 => /\ cs[2].args = cs[1].args
                               /\ cs[2].tool_name = cs[1].tool_name
             /\ (i = idx /\ pc = "create_step") =>
                   /\ result.success = cs[Len(cs)].success
                   /\ \A k \in 1..Len(cs) : cs[k].args = resolved_args
             /\ i <= Len(step_results) => step_results[i].success = cs[Len(cs)].success

\* a tool failed first and succeeded on the retry: two calls, success recorded
C2_Witness ==
    /\ pc = "create_step"
    /\ Len(CallsOf(idx)) = 2
    /\ ~CallsOf(idx)[1].success
    /\ result.success
    /\ result.output = Str(<<"answer">>)

\* C9: a run that returns has executed and recorded exactly min(n, c) steps
\* for a plan of n steps and a cap of c, in the order of the plan; no registry
\* call is ever made for a step beyond the cap; and the capped plan is the
\* first min(n, c) steps of the plan create_plan returned.
C9_Inv ==
    /\ \A k \in 1..Len(calls) : calls[k].idx <= Min(plan_len, max_steps)
    /\ Len(step_results) <= Min(plan_len, max_steps)
    /\ pc = "done" =>
          /\ Len(returned.steps_executed) = Min(plan_len, max_steps)
          /\ \A k \in 1..Len(returned.steps_executed) :
                /\ returned.steps_executed[k].step_id = plan.steps[k].step_id
                /\ returned.steps_executed[k].tool_name = plan.steps[k].tool_name

\* C9: the step cap, as the invariant above together with the capping step
C9_StepCap ==
    /\ []C9_Inv
    /\ [][pc = "planned" =>
             plan'.steps = SubSeq(plan.steps, 1, Min(Len(plan.steps), max_steps))]_vars

\* a plan longer than a cap of at least two was run to its end
C9_Witness ==
    /\ pc = "done"
    /\ plan_len > max_steps
    /\ max_steps >= 2
    /\ Len(returned.steps_executed) = max_steps

RECURSIVE SumTokens(_)
SumTokens(rs) == IF rs = <<>> THEN 0 ELSE Head(rs).tokens_used + SumTokens(Tail(rs))

\* a failed result built by the registry itself: unknown tool, or a tool body
\* that raised
RegistryFailure(r) ==
    /\ ~r.success
    /\ \/ r.metadata.traceback.t # "none"
       \/ r.error.t = "str" /\ StartsWith(r.error.s, <<"Tool '">>)

\* C10: the total_tokens of a returned AgentResult is the planning tokens of
\* the plan plus the tokens_used of every recorded step; while the loop runs,
\* total_tokens is that sum over the steps already recorded plus the result
\* just obtained, and a failure built by the registry adds nothing.
C10_TotalTokens ==
    /\ returned.kind = "result" =>
          returned.total_tokens =
             PlanningTokens(plan) + SumTokens(returned.steps_executed)
    /\ pc \in {"execute", "retry", "create_response", "store_interaction"} =>
          total_tokens = PlanningTokens(plan) + SumTokens(step_results)
    /\ pc = "create_step" =>
          /\ total_tokens = PlanningTokens(plan) + SumTokens(step_results)
                               + result.tokens_used
          /\ RegistryFailure(result) =>
                total_tokens = PlanningTokens(plan) + SumTokens(step_results)

\* a returned run with planning tokens, a step that used tokens and a step
\* that failed inside the registry
C10_Witness ==
    /\ returned.kind = "result"
    /\ PlanningTokens(plan) > 0
    /\ \E k \in 1..Len(returned.steps_executed) :
          returned.steps_executed[k].tokens_used > 0
    /\ \E k \in 1..Len(returned.steps_executed) :
          /\ ~returned.steps_executed[k].success
          /\ returned.steps_executed[k].tokens_used = 0
    /\ returned.total_tokens > PlanningTokens(plan)

-----------------------------------------------------------------------------
(* Properties of ToolRegistry.execute *)

\* C3: execute on a registered tool whose body raises does not raise: it
\* returns a failed ToolResult whose error is the exception's class name, ": "
\* and its message, with the trace in metadata; the bindings are as before.
C3_ExecuteIsolatesFaults ==
    (pc = "registry" /\ fin.op = "execute") =>
       /\ ~fout.raised
       /\ tools = fin.before
       /\ (Registered(fin.before, fin.name) /\ fin.body.kind = "raises") =>
             /\ ~result.success
             /\ result.error = Str(<<fin.body.cls, ": ">> \o fin.body.msg)
             /\ result.metadata.traceback.t = "str"
             /\ result.metadata.traceback.s # <<>>
             /\ result.tokens_used = 0

\* execute was called on a registered tool whose body raised
C3_Witness ==
    /\ pc = "registry"
    /\ fin.op = "execute"
    /\ Registered(tools, fin.name)
    /\ fin.body.kind = "raises"
    /\ ~result.success

-----------------------------------------------------------------------------
(* Properties of Planner.create_plan *)

Heuristic == classify_task_complexity_keywords(prompt)

\* C4: for a prompt the heuristic does not classify as simple, create_plan
\* makes exactly one planning call; when that call raises or returns text that
\* cannot be parsed, the plan returned is the fallback plan: one step with
\* step_id 0, tool llm_generate and provider gemini, and the heuristic's
\* complexity.
C4_OnePlanningCallThenFallback ==
    /\ planning_calls <= 1
    /\ (pc = "planned" /\ Heuristic # "simple") =>
          /\ planning_calls = 1
          /\ (planning_reply.kind = "raises" \/ planning_reply.form = "garbage") =>
                /\ Len(plan.steps) = 1
                /\ plan.steps[1].step_id = 0
                /\ plan.steps[1].tool_name = "llm_generate"
                /\ plan.steps[1].args.provider = Str(<<"gemini">>)
                /\ plan.steps[1].args.prompt = Str(PromptText(prompt))
                /\ plan.complexity = Heuristic
                /\ PlanningTokens(plan) = 0

\* a prompt classified complex by its length alone, whose planning call
\* returned text that is not JSON
C4_Witness ==
    /\ pc = "planned"
    /\ Heuristic = "complex"
    /\ ~prompt.complex
    /\ planning_reply.kind = "returns"
    /\ planning_reply.form = "garbage"

\* C5: for a prompt the heuristic classifies as simple, create_plan returns a
\* plan of exactly one step (tool llm_generate, prompt the raw prompt,
\* provider groq, temperature 0.4) and makes no planning call.
C5_SimplePlan ==
    (pc = "planned" /\ Heuristic = "simple") =>
       /\ planning_calls = 0
       /\ Len(plan.steps) = 1
       /\ plan.steps[1].tool_name = "llm_generate"
       /\ plan.steps[1].args.prompt = Str(PromptText(prompt))
       /\ plan.steps[1].args.provider = Str(<<"groq">>)
       /\ plan.steps[1].args.temperature = Obj(<<"0.4">>)
       /\ DOMAIN plan.steps[1].args = {"prompt", "provider", "temperature"}
       /\ plan.complexity = "simple"

\* a simple prompt at the 20-word threshold was planned
C5_Witness ==
    /\ pc = "planned"
    /\ Heuristic = "simple"
    /\ prompt.words = MODERATE_WORDS

\* C6: every plan create_plan returns has at least one step, so the runner
\* never reaches its execution loop with an empty plan.
C6_PlanNeverEmpty ==
    pc \in {"planned", "store_plan", "execute", "create_response"} =>
       (Len(plan.steps) >= 1 /\ plan_len >= 1)

-----------------------------------------------------------------------------
(* Properties of _resolve_args and _compile_response *)

\* what one atom of an argument text must become
Piece(a, outs) ==
    IF \E e \in RefTable : e[1] = a
    THEN LET n == (CHOOSE e \in RefTable : e[1] = a)[2] IN
         IF n \in DOMAIN outs THEN outs[n]
         ELSE <<"[step ", ToString(n), " output unavailable]">>
    ELSE <<a>>

RECURSIVE Offset(_, _, _)
Offset(v, outs, i) == IF i = 0 THEN 0 ELSE Offset(v, outs, i - 1) + Len(Piece(v[i], outs))

\* text w is text v with every reference replaced in place
Substituted(v, outs, w) ==
    /\ Len(w) = Offset(v, outs, Len(v))
    /\ \A i \in 1..Len(v) :
          SubSeq(w, Offset(v, outs, i - 1) + 1, Offset(v, outs, i)) = Piece(v[i], outs)

\* C7: _resolve_args returns, for every string argument, the text in which
\* each reference to step N is replaced by the output recorded for N, or by
\* "[step N output unavailable]" when N has no recorded output; no reference
\* is dropped.
C7_ResolveArgs ==
    pc = "resolved" =>
       /\ DOMAIN fout = DOMAIN fin.args
       /\ \A k \in DOMAIN fin.args :
             fin.args[k].t = "str" =>
                /\ fout[k].t = "str"
                /\ Substituted(fin.args[k].s, fin.outs, fout[k].s)

\* an argument referring to a recorded step and to a step never run
C7_Witness ==
    /\ pc = "resolved"
    /\ fin.args.prompt.s = <<"{step_1_output}", " and ", "{step_0_output}">>
    /\ DOMAIN fin.outs = {0}
    /\ fin.outs[0] = <<"X">>
    /\ fout.prompt.s = <<"[step ", "1", " output unavailable]", " and ", "X">>

IsErrorText(s) == Len(s) >= 1 /\ s[1] = "[ERROR]"

\* C8: _compile_response returns the fixed "couldn't generate" message for an
\* empty mapping; the output of the highest step_id when that is no error
\* marker; otherwise the output of the greatest step_id that is no error
\* marker, or the generic failure message when all are error markers.
C8_CompileResponse ==
    pc = "compiled" =>
       LET outs == fin.outs
           good == { i \in DOMAIN outs : ~IsErrorText(outs[i]) }
           top == CHOOSE i \in DOMAIN outs : \A j \in DOMAIN outs : j <= i
       IN  IF DOMAIN outs = {}
           THEN fout = <<"I couldn't generate a response. Please try again.">>
           ELSE IF ~IsErrorText(outs[top]) THEN fout = outs[top]
           ELSE IF good = {}
           THEN fout = <<"An error occurred while processing your request. Please try again.">>
           ELSE \E g \in good : /\ \A h \in good : h <= g
                                /\ fout = outs[g]

\* the last step failed and the one before it did not
C8_Witness ==
    /\ pc = "compiled"
    /\ DOMAIN fin.outs = {0, 1, 2}
    /\ IsErrorText(fin.outs[2])
    /\ IsErrorText(fin.outs[1])
    /\ fin.outs[0] = <<"X">>
    /\ fout = <<"X">>

-----------------------------------------------------------------------------
(* Properties of interleaved requests *)

\* C11: the steps of a request are executed one after the other in the order
\* of the list, whatever their step_id and depends_on: the calls started are
\* for positions 1, 2, ... of the list (each once or twice), the call for a
\* position starts only when every earlier position has its result and its
\* output recorded, and a request never has two registry calls in flight.
C11_SequentialListOrder ==
    \A r \in 1..Len(reqs) :
       LET q == reqs[r]
           mine == { f \in in_flight : f.req = r }
       IN  /\ Cardinality(mine) <= 1
           /\ \A f \in mine : q.pc = "awaiting" /\ f.idx = q.idx
           /\ q.pc = "awaiting" => mine # {}
           /\ \A k \in 1..Len(q.invoked) :
                 LET e == q.invoked[k] IN
                 /\ e.idx \in 1..Len(q.plan.steps)
                 /\ e.step_id = q.plan.steps[e.idx].step_id
                 /\ IF k = 1 THEN e.idx = 1
                    ELSE q.invoked[k - 1].idx \in {e.idx - 1, e.idx}
                 /\ Cardinality({ j \in 1..Len(q.invoked) : q.invoked[j].idx = e.idx }) <= 2
                 /\ Len(q.log) >= e.idx - 1
                 /\ \A j \in 1..(e.idx - 1) :
                       q.plan.steps[j].step_id \in DOMAIN q.step_outputs
           /\ (q.pc = "awaiting" /\ q.attempt = 1) =>
                 /\ Len(q.log) = q.idx - 1
                 /\ Len(q.step_results) = q.idx - 1

\* a request whose first listed step has step_id 1 and depends on step 0,
\* listed second, has run both in list order while another call is in flight
C11_Witness ==
    \E r \in 1..Len(reqs) :
       /\ reqs[r].pc = "done"
       /\ Len(reqs[r].plan.steps) = 2
       /\ reqs[r].plan.steps[1].step_id = 1
       /\ reqs[r].plan.steps[1].depends_on = <<0>>
       /\ reqs[r].plan.steps[2].step_id = 0
       /\ Len(reqs[r].step_results) = 2
       /\ reqs[r].step_results[1].step_id = 1
       /\ \E f \in in_flight : f.req # r

\* the step_outputs a request has after its first k steps, from its own plan
\* and its own tool results alone
RECURSIVE OutsAfter(_, _, _)
OutsAfter(p, log, k) ==
    IF k = 0 THEN EmptyMap
    ELSE (p.steps[k].step_id :> OutputText(log[k])) @@ OutsAfter(p, log, k - 1)

\* the atoms of every text a request holds or returns
AtomsOf(q) ==
    UNION { { q.step_outputs[i][n] : n \in 1..Len(q.step_outputs[i]) } :
              i \in DOMAIN q.step_outputs }
    \cup { q.resolved_args.prompt.s[n] : n \in 1..Len(q.resolved_args.prompt.s) }
    \cup { q.returned.response[n] : n \in 1..Len(q.returned.response) }
    \cup UNION { { q.step_results[i].output[n] : n \in 1..Len(q.step_results[i].output) } :
                   i \in 1..Len(q.step_results) }

\* C18: with requests interleaved at their awaits, what a request holds and
\* returns is a function of its own plan and its own tool results: its
\* step_outputs, total_tokens, steps_executed and response are those of the
\* request run alone, and no text of another request appears in it.
C18_RequestsAreIsolated ==
    \A r \in 1..Len(reqs) :
       LET q == reqs[r]
           n == Len(q.log)
       IN  /\ q.step_outputs = OutsAfter(q.plan, q.log, n)
           /\ q.pc \in {"execute", "awaiting", "create_step", "finish", "done"} =>
                 q.total_tokens = PlanningTokens(q.plan) + SumTokens(q.log)
           /\ \A k \in 1..Len(q.step_results) :
                 /\ q.step_results[k].step_id = q.plan.steps[k].step_id
                 /\ q.step_results[k].success = q.log[k].success
                 /\ q.step_results[k].output = OutputText(q.log[k])
                 /\ q.step_results[k].tokens_used = q.log[k].tokens_used
           /\ q.pc = "done" =>
                 /\ n = Len(q.plan.steps)
                 /\ q.returned.steps_executed = q.step_results
                 /\ Len(q.step_results) = n
                 /\ q.returned.total_tokens = PlanningTokens(q.plan) + SumTokens(q.log)
                 /\ q.returned.response = compile_response(OutsAfter(q.plan, q.log, n))
           /\ \A o \in 1..NumRequests : o # r => Tag(o) \notin AtomsOf(q)

\* two requests have a call in flight at the same time, each with an output
\* of its own already recorded
C18_Witness ==
    /\ Len(reqs) = 2
    /\ Cardinality(in_flight) = 2
    /\ reqs[1].pc = "awaiting"
    /\ reqs[2].pc = "awaiting"
    /\ reqs[1].step_outputs # EmptyMap
    /\ reqs[2].step_outputs # EmptyMap
    /\ Tag(1) \in AtomsOf(reqs[1])
    /\ Tag(2) \in AtomsOf(reqs[2])

-----------------------------------------------------------------------------
(* Properties of the stores and of the registry's bindings *)

\* C12: a fault of create_step or create_response is swallowed: a run is
\* never left by an exception of one of these two calls (only a failing
\* create_request ends a run).
C12_PersistenceFaultSwallowed ==
    returned.kind = "raised" => returned.response = <<"create_request">>

\* C13: register on a name already bound raises and leaves the registry as it
\* was, the earlier tool still bound; on a free name it adds the binding; and
\* whatever was registered and unregistered, no name is bound twice.
C13_RegisterRejectsDuplicates ==
    /\ \A i, j \in 1..Len(tools) : tools[i].name = tools[j].name => i = j
    /\ (pc = "registry" /\ fin.op = "register") =>
          IF \E i \in 1..Len(fin.before) : fin.before[i].name = fin.name
          THEN /\ fout.raised
               /\ tools = fin.before
          ELSE /\ ~fout.raised
               /\ tools = Append(fin.before, [name |-> fin.name, obj |-> fin.obj])

\* register was called with another tool object for a name already bound
C13_Witness ==
    /\ pc = "registry"
    /\ fin.op = "register"
    /\ Registered(fin.before, fin.name)
    /\ Lookup(fin.before, fin.name) # fin.obj
    /\ fout.raised
    /\ Len(tools) >= 2

\* the error text for a name that is not registered, given the names that are
NotFoundText(name, names) == <<"Tool '", name, "' not found. Available: ">> \o names

\* C14: execute on a name that is not registered invokes no tool, does not
\* raise, leaves the registry as it was and returns a failed ToolResult whose
\* error lists the registered names; in a run the step is recorded with the
\* error marker, and a run that returns has executed every step of its plan.
C14_UnknownToolIsRecoverable ==
    /\ (pc = "registry" /\ fin.op = "execute"
          /\ \A i \in 1..Len(fin.before) : fin.before[i].name # fin.name) =>
          /\ ~fout.raised
          /\ fout.invoked = <<>>
          /\ tools = fin.before
          /\ result = [success |-> FALSE, output |-> None,
                       error |-> Str(NotFoundText(fin.name,
                                        [i \in 1..Len(tools) |-> tools[i].name])),
                       tokens_used |-> 0, metadata |-> NoMetadata]
    /\ pc \notin {"registry"} =>
          /\ tools = BuiltinTools
          /\ \A k \in 1..Len(calls) :
                calls[k].tool_name \notin {"llm_generate", "llm_analyze_image", "send_email"}
                   => (calls[k].invoked = <<>> /\ ~calls[k].success)
          /\ (pc = "create_step" /\ step.tool_name = "web_search") =>
                /\ result.error =
                      Str(NotFoundText("web_search",
                             <<"llm_generate", "llm_analyze_image", "send_email">>))
                /\ step_outputs[step.step_id] = <<"[ERROR]", " ">> \o result.error.s
          /\ \A k \in 1..Len(step_results) :
                step_results[k].tool_name = "web_search" =>
                   /\ ~step_results[k].success
                   /\ StartsWith(step_results[k].output, <<"[ERROR]", " ", "Tool '">>)
          /\ pc = "done" => Len(returned.steps_executed) = Len(plan.steps)

\* a run has returned whose first step named an unregistered tool and whose
\* second step was executed with success
C14_Witness ==
    /\ pc = "done"
    /\ Len(returned.steps_executed) >= 2
    /\ returned.steps_executed[1].tool_name = "web_search"
    /\ ~returned.steps_executed[1].success
    /\ returned.steps_executed[2].success
    /\ returned.response = <<"answer">>

-----------------------------------------------------------------------------
(* What reaches the caller of the runner *)

\* text s occurs in text w
Contains(w, s) ==
    \E i \in 1..(Len(w) - Len(s) + 1) : SubSeq(w, i, i + Len(s) - 1) = s

\* the first line of every trace traceback.format_exc() writes
TraceHeader == <<"Traceback (most recent call last):">>

\* C15: the trace the registry captures in the metadata of a failed result
\* never reaches the caller: it occurs neither in the output text nor in the
\* error of the step it belongs to, and no entry of steps_executed and no
\* response holds the text of a trace.
C15_NoStackTraceToCaller ==
    /\ (pc \in {"retry", "create_step"} /\ result.metadata.traceback.t = "str") =>
          /\ StartsWith(result.metadata.traceback.s, TraceHeader)
          /\ ~Contains(OutputText(result), result.metadata.traceback.s)
          /\ ~Contains(result.error.s, result.metadata.traceback.s)
    /\ \A i \in DOMAIN step_outputs : ~Contains(step_outputs[i], TraceHeader)
    /\ \A k \in 1..Len(step_results) :
          /\ ~Contains(step_results[k].output, TraceHeader)
          /\ ~Contains(step_results[k].error.s, TraceHeader)
          /\ DOMAIN step_results[k] =
                {"step_id", "tool_name", "success", "output", "error", "tokens_used"}
    /\ returned.kind = "result" =>
          /\ ~Contains(returned.response, TraceHeader)
          /\ returned.steps_executed = step_results

\* a run has returned in which a tool raised on both attempts: the step shows
\* the class and message of the exception
C15_Witness ==
    /\ returned.kind = "result"
    /\ retry_enabled
    /\ \E k \in 1..Len(returned.steps_executed) :
          /\ returned.steps_executed[k].error = Str(<<"ValueError", ": ", "bad input">>)
          /\ returned.steps_executed[k].output =
                <<"[ERROR]", " ", "ValueError", ": ", "bad input">>

-----------------------------------------------------------------------------
(* Properties of the keyword heuristic *)

\* C16: the heuristic answers image when an image phrase occurs; otherwise
\* complex when a complex phrase occurs or the prompt has more than 50 words;
\* otherwise moderate when a moderate phrase occurs or it has more than 20
\* words; otherwise simple.
C16_HeuristicPriority ==
    pc = "classified" =>
       LET c == fout.complexity
           w == prompt.words
       IN  /\ c \in {"image", "complex", "moderate", "simple"}
           /\ c = "image" <=> prompt.image
           /\ c = "complex" <=> (~prompt.image /\ (prompt.complex \/ w >= 51))
           /\ c = "moderate" <=>
                 (~prompt.image /\ ~prompt.complex /\ w <= 50 /\ (prompt.moderate \/ w >= 21))
           /\ (~prompt.image /\ ~prompt.complex /\ ~prompt.moderate) =>
                 /\ w <= 20 => c = "simple"
                 /\ (21 <= w /\ w <= 50) => c = "moderate"
                 /\ w >= 51 => c = "complex"

\* a prompt of 51 words with an image phrase and a complex phrase is image
C16_Witness ==
    /\ pc = "classified"
    /\ prompt.image
    /\ prompt.complex
    /\ prompt.words = 51
    /\ fout.complexity = "image"

-----------------------------------------------------------------------------
(* End to end *)

\* C17: for a prompt the heuristic classifies as simple, a run that returns
\* made no planning call and had a plan of one llm_generate step with
\* provider groq; when the tool succeeds at once it is called exactly once,
\* and the response is the text the tool returned.
C17_SimplePromptEndToEnd ==
    (pc = "done" /\ classify_task_complexity_keywords(prompt) = "simple") =>
       /\ planning_calls = 0
       /\ Len(plan.steps) = 1
       /\ plan.steps[1].tool_name = "llm_generate"
       /\ plan.steps[1].args.provider = Str(<<"groq">>)
       /\ calls[1].success => Len(calls) = 1
       /\ (result.success /\ result.output.t = "str") =>
             returned.response = result.output.s

-----------------------------------------------------------------------------
(* More properties of the registry's bindings *)

\* the tool object bound to a name in a registry
BoundTo(ts, name) == { ts[i].obj : i \in { j \in 1..Len(ts) : ts[j].name = name } }

\* C19: register accepts a tool object that is already bound under another
\* name, and execute on any name bound to an object invokes exactly that
\* object: two names bound to one object route to it.
C19_OneToolTwoNames ==
    pc = "registry" =>
       /\ (fin.op = "register" /\ BoundTo(fin.before, fin.name) = {}) =>
             /\ ~fout.raised
             /\ BoundTo(tools, fin.name) = {fin.obj}
             /\ Len(tools) = Len(fin.before) + 1
       /\ (fin.op = "execute" /\ BoundTo(fin.before, fin.name) # {}) =>
             /\ ~fout.raised
             /\ BoundTo(fin.before, fin.name) = {fin.obj}
             /\ fout.invoked = <<fin.obj>>

\* one tool object is bound under two names, and execute on the name bound
\* second has invoked it
C19_Witness ==
    /\ pc = "registry"
    /\ fin.op = "execute"
    /\ \E i, j \in 1..Len(tools) :
          /\ i < j
          /\ tools[i].obj = tools[j].obj
          /\ tools[j].name = fin.name
          /\ fout.invoked = <<tools[i].obj>>

\* what unregister leaves of a registry
C20_Inv ==
    (pc = "registry" /\ fin.op = "unregister") =>
       /\ ~fout.raised
       /\ BoundTo(fin.before, fin.name) = {} => tools = fin.before
       /\ tools = SelectSeq(fin.before, LAMBDA b : b.name # fin.name)
       /\ BoundTo(tools, fin.name) = {}

\* C20: unregister never raises; on an absent name it changes nothing; it
\* removes the named binding and no other; a second unregister of the same
\* name changes nothing; and the name can be registered again afterwards.
C20_UnregisterIdempotent ==
    /\ []C20_Inv
    /\ [][(pc = "registry" /\ fin.op = "unregister" /\ fin'.op = "unregister"
             /\ fin'.name = fin.name) => (tools' = tools /\ ~fout'.raised)]_vars
    /\ [][(pc = "registry" /\ fin.op = "unregister" /\ fin'.op = "register"
             /\ fin'.name = fin.name) =>
                (~fout'.raised
                 /\ tools' = Append(tools, [name |-> fin.name, obj |-> fin'.obj]))]_vars

\* unregister has removed the binding made first and kept the one made after
C20_Witness ==
    /\ pc = "registry"
    /\ fin.op = "unregister"
    /\ Len(fin.before) = 2
    /\ fin.before[1].name = fin.name
    /\ tools = <<fin.before[2]>>

\* ---------------------------------------------------------------------------
\* C21: when create_request raises, run raises to its caller and the request
\* leaves nothing behind: no tool was executed and no step record, response
\* record or memory interaction was written.  A request past line 125 without
\* a request record is one whose create_request raised.
C21_CreateRequestIsFatal ==
    (pc \notin {"context", "plan", "planned"} /\ ~db.request) =>
        /\ pc = "raised"
        /\ returned = Raised("create_request")
        /\ calls = <<>>
        /\ step_results = <<>>
        /\ db.steps = <<>>
        /\ db.response = None
        /\ ~db.interaction

\* create_request raised for a plan that had steps to run
C21_Witness ==
    /\ returned = Raised("create_request")
    /\ Len(plan.steps) >= 1
    /\ calls = <<>>

-----------------------------------------------------------------------------
(* Properties of the send_email tool *)

\* C22: send_email validates before acting.  With to_email, subject or body
\* missing or empty every attempt fails with a non-empty error text and the
\* email service is never called, whether or not the step is retried; with
\* valid arguments one step calls the service at most twice, at most once per
\* attempt.
C22_EmailValidatesBeforeActing ==
    /\ fout.service_calls <= fout.attempts
    /\ fout.attempts <= 2
    /\ (pc \in {"email_retry", "emailed"} /\ EmailInvalid(fin)) =>
          /\ ~result.success
          /\ result.error = Str(RequiredText)
          /\ fout.service_calls = 0

\* an invalid send_email step was attempted twice and nothing was sent
C22_Witness ==
    /\ pc = "emailed"
    /\ EmailInvalid(fin)
    /\ fout.attempts = 2
    /\ fout.service_calls = 0

-----------------------------------------------------------------------------
(* Properties of the session context *)

RECURSIVE Chars(_)
Chars(pieces) == IF pieces = <<>> THEN 0 ELSE pieces[1].chars + Chars(Tail(pieces))

BlocksOf(pieces) == SelectSeq(pieces, LAMBDA x : x.kind = "block")

Chronological(pieces) ==
    \A i, j \in 1..Len(BlocksOf(pieces)) :
        i < j => BlocksOf(pieces)[i].at < BlocksOf(pieces)[j].at

\* C23: the context get_session_context returns has at most max_chars
\* characters, its exchanges are oldest first, and it is the empty string
\* when the session has no exchange or the fetch fails.
C23_ContextIsBounded ==
    pc \in {"fetched", "fetch_failed"} =>
        /\ Chars(fout) <= CONTEXT_MAX_CHARS
        /\ Chronological(fout)
        /\ (fin = <<>> \/ pc = "fetch_failed") => fout = <<>>

\* the parts of C23 other than the length
C23_OrderAndEmpty ==
    pc \in {"fetched", "fetch_failed"} =>
        /\ Chronological(fout)
        /\ (fin = <<>> \/ pc = "fetch_failed") => fout = <<>>

-----------------------------------------------------------------------------
(* Which output the response is compiled from *)

\* C24: in every run that returns, also when the step_ids of the plan are not
\* increasing in list order, the output recorded under the highest step_id,
\* from which _compile_response starts, is the output of the last step of the
\* list.
C24_PrimaryIsLastStep ==
    (pc = "done" /\ Len(plan.steps) >= 1) =>
        step_outputs[SetMax(DOMAIN step_outputs)]
            = step_results[Len(step_results)].output

\* C25: a step's recorded output begins with "[ERROR] " exactly when the
\* step's final result is unsuccessful, and _compile_response takes it for an
\* error output exactly then: whatever a failed result carries it is recorded
\* as a marker, whatever a successful result carries it is not.
C25_MarkerIffUnsuccessful ==
    pc = "create_step" =>
        /\ StartsWith(step_outputs[step.step_id], ErrorMarker) <=> ~result.success
        /\ IsErrorText(step_outputs[step.step_id]) <=> ~result.success

-----------------------------------------------------------------------------
(* Usable plans *)

\* C26: every plan create_plan returns can be run: the args of each step is a
\* mapping, so _resolve_args never raises, whatever the planning model
\* answered; an answer with a step whose args is null gives the fallback plan.
C26_PlanIsUsable ==
    /\ pc \notin {"context", "plan"} =>
          \A i \in 1..Len(plan.steps) : IsMapping(plan.steps[i].args)
    /\ returned # Raised("resolve_args")

-----------------------------------------------------------------------------
(* Steps that share a step_id, and steps that refer to a failed step *)

\* the positions whose output has been recorded, and the output of each
Recorded == IF pc = "create_step" THEN idx ELSE idx - 1
OutOf(k) == IF k <= Len(step_results) THEN step_results[k].output ELSE OutputText(result)

\* the last of the first n positions that carries step_id id
Latest(id, n) == SetMax({ k \in 1..n : plan.steps[k].step_id = id })

\* step_id -> output of the latest of the first n steps with that step_id
LatestOutputs(n) ==
    [id \in { plan.steps[k].step_id : k \in 1..n } |-> OutOf(Latest(id, n))]

\* C27: when steps share a step_id the later output replaces the earlier one
\* in step_outputs: at every point of the loop step_outputs maps each step_id
\* to the output of the latest executed step that carries it, the arguments
\* of a step are resolved against that mapping and the response is compiled
\* from it, while steps_executed has one entry per executed step, in order.
C27_LaterOutputOverwrites ==
    /\ pc \in {"execute", "retry", "create_step", "create_response",
               "store_interaction", "done"} =>
          /\ step_outputs = LatestOutputs(Recorded)
          /\ Len(step_results) = idx - 1
          /\ \A k \in 1..Len(step_results) :
                step_results[k].step_id = plan.steps[k].step_id
    /\ pc \in {"retry", "create_step"} =>
          resolved_args = resolve_args(step.args, LatestOutputs(idx - 1))
    /\ pc = "done" =>
          /\ returned.response = compile_response(LatestOutputs(Len(plan.steps)))
          /\ Len(returned.steps_executed) = Len(plan.steps)

\* the first two steps share step_id 0 and gave different outputs; the third
\* step referred to step 0 and was called with the second output; the
\* response is compiled without the first output
C27_Witness ==
    /\ pc = "done"
    /\ Len(plan.steps) = 3
    /\ plan.steps[1].step_id = 0
    /\ plan.steps[2].step_id = 0
    /\ plan.steps[3].step_id = 1
    /\ plan.steps[3].args.prompt.s = <<"use ", StepRef(0)>>
    /\ step_results[1].output = <<"answer">>
    /\ step_results[2].output = <<"42">>
    /\ \E c \in 1..Len(calls) :
          calls[c].idx = 3 /\ calls[c].args.prompt.s = <<"use ", "42">>
    /\ step_outputs[0] = <<"42">>
    /\ Len(returned.steps_executed) = 3

\* C28: the marker of a failed step is substituted like any output: a later
\* step whose prompt is "use {step_N_output}", N the id of a failed step not
\* overwritten since, is called with "use [ERROR] <error>" on every attempt,
\* and a run that returns has called it.
C28_ErrorMarkerIsSubstituted ==
    \A i \in 2..Len(plan.steps) : \A j \in 1..(i - 1) :
        ( /\ j <= Len(step_results)
          /\ ~step_results[j].success
          /\ Truthy(step_results[j].error)
          /\ j = Latest(plan.steps[j].step_id, i - 1)
          /\ IsMapping(plan.steps[i].args)
          /\ plan.steps[i].args.prompt = Str(<<"use ", StepRef(plan.steps[j].step_id)>>) )
        => /\ \A c \in 1..Len(calls) :
                 calls[c].idx = i =>
                    calls[c].args.prompt
                       = Str(<<"use ">> \o ErrorMarker \o step_results[j].error.s)
           /\ pc = "done" => CallsOf(i) # <<>>

\* step 0 failed with an error text and the next step, which refers to it,
\* was called with the marker in its prompt
C28_Witness ==
    /\ pc = "done"
    /\ Len(plan.steps) = 2
    /\ ~step_results[1].success
    /\ \E c \in 1..Len(calls) :
          /\ calls[c].idx = 2
          /\ calls[c].args.prompt.s
                = <<"use ", "[ERROR]", " ", "LLM generation failed: ", "boom">>

-----------------------------------------------------------------------------
(* What _resolve_args leaves alone *)

C29_Inv ==
    pc = "resolved" =>
        /\ DOMAIN fout = DOMAIN fin.args
        /\ \A k \in DOMAIN fin.args : fin.args[k].t # "str" => fout[k] = fin.args[k]

\* C29: _resolve_args returns a dict with exactly the keys of args in which
\* every non-string value is the value given, and the call changes neither
\* args nor step_outputs: the templates are still in args afterwards.
C29_ResolveArgsFrame ==
    /\ []C29_Inv
    /\ [][pc = "resolve" => fin' = fin]_vars

\* a call that filled in a reference: the result differs from args, args
\* still holds the reference, the non-string value came through
C29_Witness ==
    /\ pc = "resolved"
    /\ fin.args.prompt.s = <<"use ", "{step_0_output}">>
    /\ 0 \in DOMAIN fin.outs
    /\ fin.outs[0] = <<"X">>
    /\ fout.prompt.s = <<"use ", "X">>
    /\ fout.temperature = Obj(<<"0.4">>)

-----------------------------------------------------------------------------
(* The two truncations *)

\* len(output_text) of the long step: the output, or the marker and the error
FullLen == IF fin.result.success THEN fin.chars ELSE TextLen(ErrorMarker) + fin.chars

\* C30: the text persisted for a step has min(len, 10000) characters and the
\* output in steps_executed min(len, 2000), each a cut of the same full text,
\* while step_outputs, the argument of a later step and the final response
\* carry the full text.
C30_IndependentCaps ==
    pc \in {"long_recorded", "long_resolved", "long_compiled"} =>
        /\ TextLen(fout.persisted) = Min(FullLen, DB_OUTPUT_CAP)
        /\ TextLen(fout.summary) = Min(FullLen, API_OUTPUT_CAP)
        /\ fout.summary = TakeChars(fout.persisted, API_OUTPUT_CAP)
        /\ fout.step_outputs[0] = OutputText(fin.result)
        /\ TextLen(fout.step_outputs[0]) = FullLen
        /\ fout.resolved # NoArgs =>
              /\ fout.resolved.prompt.s = <<"use ">> \o OutputText(fin.result)
              /\ TextLen(fout.resolved.prompt.s) = 4 + FullLen
        /\ (pc = "long_compiled" /\ fin.result.success) =>
              /\ fout.response = fin.result.output.s
              /\ TextLen(fout.response) = FullLen

\* a successful output of 12,000 characters: 10,000 persisted, 2,000 in
\* steps_executed, 12,000 in the next step's prompt and in the response
C30_Witness ==
    /\ pc = "long_compiled"
    /\ fin.result.success
    /\ fin.chars = DB_OUTPUT_CAP + API_OUTPUT_CAP
    /\ TextLen(fout.persisted) = DB_OUTPUT_CAP
    /\ TextLen(fout.summary) = API_OUTPUT_CAP
    /\ fout.resolved # NoArgs
    /\ TextLen(fout.resolved.prompt.s) = 4 + DB_OUTPUT_CAP + API_OUTPUT_CAP
    /\ TextLen(fout.response) = DB_OUTPUT_CAP + API_OUTPUT_CAP

-----------------------------------------------------------------------------
(* Best-effort collaborators *)

\* the calls whose exception leaves run
FatalCalls == {<<"create_request">>, <<"create_step">>, <<"create_response">>,
               <<"resolve_args">>, <<"execute_binding">>}

\* C31: a failed context fetch, a failed plan store and a failed interaction
\* store never end a run.  No run is left with an exception of theirs; a run
\* that reaches its end returns, whatever these three did, the AgentResult
\* that its plan and its tool results determine, with every step of the plan
\* executed.
C31_BestEffortNeverAborts ==
    /\ returned.kind = "raised" => returned.response \in FatalCalls
    /\ pc = "raised" => returned.kind = "raised"
    /\ pc = "done" =>
          /\ returned.kind = "result"
          /\ Len(returned.steps_executed) = Len(plan.steps)
          /\ \A k \in 1..Len(plan.steps) : CallsOf(k) # <<>>
          /\ returned.steps_executed = step_results
          /\ returned.response = compile_response(LatestOutputs(Len(plan.steps)))
          /\ returned.total_tokens = PlanningTokens(plan) + SumTokens(step_results)

\* a run that returned although the context fetch failed, the plan was not
\* stored and the interaction was not stored
C31_Witness ==
    /\ pc = "done"
    /\ memory_context.failed
    /\ ~db.plan
    /\ ~db.interaction
    /\ Len(plan.steps) = 2
    /\ returned.kind = "result"
    /\ Len(returned.steps_executed) = 2

-----------------------------------------------------------------------------
(* Termination *)

C32_Inv ==
    /\ planning_calls <= 1
    /\ Len(calls) <= 2 * Min(plan_len, max_steps)
    /\ \A k \in 1..Len(plan.steps) : Len(CallsOf(k)) <= 2

\* C32: unless an external call never returns, every run ends, by returning
\* or by raising, after at most one planning call and at most two tool
\* invocations for each of the min(n, cap) steps it keeps of a plan of n steps;
\* a run whose external call never returns stays at that call for ever.
C32_Termination ==
    /\ []C32_Inv
    /\ [][pc = "hung" => pc' = "hung"]_vars
    /\ <>(pc \in {"done", "raised", "hung"})

\* a run that returned after one planning call and two calls for each of the
\* steps left by the cap
C32_Witness ==
    /\ pc = "done"
    /\ planning_calls = 1
    /\ plan_len > max_steps
    /\ Len(calls) = 2 * max_steps

-----------------------------------------------------------------------------
(* What _compile_response never returns *)

\* C33: for every step_outputs mapping the text _compile_response returns
\* does not begin with "[ERROR]".
C33_ResponseIsNoMarker ==
    pc = "compiled" => ~StartsWith(fout, ErrorPrefix)

\* every recorded output is an error marker, the last one included, and the
\* fixed failure message is returned
C33_Witness ==
    /\ pc = "compiled"
    /\ DOMAIN fin.outs = {0, 1, 2}
    /\ \A i \in DOMAIN fin.outs : StartsWith(fin.outs[i], ErrorPrefix)
    /\ fout = <<"An error occurred while processing your request. Please try again.">>

-----------------------------------------------------------------------------
(* Argument binding of registry.execute *)

\* the step at position i has an args key named tool_name
Clashes(i) == IsMapping(plan.steps[i].args) /\ "tool_name" \in DOMAIN plan.steps[i].args

\* C34: for a step whose args has a key tool_name the call of
\* registry.execute raises before a tool is looked up: no registry call is
\* made for that step or for a later one, run is left with the exception as
\* soon as the step is reached, and no AgentResult is returned.
C34_BindingFaultLeavesRun ==
    \A i \in 1..Len(plan.steps) :
        Clashes(i) =>
            /\ \A k \in i..Len(plan.steps) : CallsOf(k) = <<>>
            /\ idx <= i
            /\ (idx = i /\ pc # "execute") =>
                  pc = "raised" /\ returned = Raised("execute_binding")
            /\ (pc \notin {"context", "plan", "planned"}) => returned.kind # "result"
            /\ pc # "done"

\* the first step ran, the second has a tool_name key: run raised there
C34_Witness ==
    /\ pc = "raised"
    /\ returned = Raised("execute_binding")
    /\ idx = 2
    /\ Len(CallsOf(1)) >= 1
    /\ CallsOf(2) = <<>>
    /\ Len(step_results) = 1

-----------------------------------------------------------------------------
(* Complexity label of a parsed plan *)

\* the plan was built by from_dict from the planning call's answer
BuiltFromAnswer == plan # NoPlan /\ plan.metadata.planning_tokens.t = "int"

\* C35: a plan built from a parsed answer carries the answer's complexity
\* field, or "simple" when the field is absent, whatever the heuristic said of
\* the prompt.
C35_ComplexityIsTheAnswers ==
    BuiltFromAnswer =>
        /\ planning_reply.kind = "returns"
        /\ planning_reply.form \in {"json", "wrapped"}
        /\ plan.complexity = IF planning_reply.complexity = "absent"
                             THEN "simple"
                             ELSE planning_reply.complexity

\* a prompt the heuristic calls complex, planned with the label simple
C35_Witness ==
    /\ BuiltFromAnswer
    /\ classify_task_complexity_keywords(prompt) = "complex"
    /\ planning_reply.complexity = "simple"
    /\ plan.complexity = "simple"

\* the same with no complexity field in the answer
C35_WitnessAbsent ==
    /\ BuiltFromAnswer
    /\ classify_task_complexity_keywords(prompt) = "complex"
    /\ planning_reply.complexity = "absent"
    /\ plan.complexity = "simple"

-----------------------------------------------------------------------------
(* What total_tokens counts *)

\* the planner made no call, or its call raised or returned text without JSON
NothingParsed ==
    planning_calls = 0 \/ planning_reply.kind = "raises" \/ planning_reply.form = "garbage"

\* no planning tokens are counted for a simple plan or a fallback plan
C36_Planning ==
    (plan # NoPlan /\ NothingParsed) =>
        /\ PlanningTokens(plan) = 0
        /\ pc \in {"execute", "retry", "create_response", "store_interaction"} =>
              total_tokens = SumTokens(step_results)
        /\ returned.kind = "result" =>
              returned.total_tokens = SumTokens(returned.steps_executed)

\* a first attempt that is to be retried leaves total_tokens as it was, and
\* the retry adds the tokens of its own result only
C36_Attempts ==
    /\ (pc = "execute" /\ pc' = "retry") => total_tokens' = total_tokens
    /\ pc = "retry" => total_tokens' = total_tokens + result'.tokens_used

\* C36: total_tokens counts recorded results only: a failed first attempt
\* that is retried adds nothing, and the planning tokens are 0 for simple and
\* for fallback plans, also after a planning call that returned with tokens
\* used but without a plan that could be parsed.
C36_OnlyRecordedResultsCount == []C36_Planning /\ [][C36_Attempts]_vars

\* the planning call used tokens and gave no JSON, the first attempt of the
\* first step failed with tokens used, and nothing is counted
C36_Witness ==
    /\ pc = "retry"
    /\ planning_reply.kind = "returns"
    /\ planning_reply.form = "garbage"
    /\ planning_reply.tokens_used > 0
    /\ ~result.success
    /\ result.tokens_used > 0
    /\ step_results = <<>>
    /\ total_tokens = 0

-----------------------------------------------------------------------------
(* Substitution is one pass *)

\* what stands in the resolved text for the i-th piece of a template: the
\* piece itself, or for a reference the recorded output as it is (else the
\* placeholder)
PieceOf(value, i, outs) ==
    IF ~IsRef(value[i]) THEN <<value[i]>>
    ELSE IF RefId(value[i]) \in DOMAIN outs THEN outs[RefId(value[i])]
    ELSE Placeholder(RefId(value[i]))

RECURSIVE Flat(_)
Flat(texts) == IF texts = <<>> THEN <<>> ELSE Head(texts) \o Flat(Tail(texts))

References(text) == SelectSeq(text, IsRef)

\* C37: the resolved text is the template's pieces in order, each reference
\* replaced by the recorded output exactly as recorded; the references an
\* output holds stay in the resolved text as they are.
C37_SinglePass ==
    pc = "resolved" =>
        \A k \in DOMAIN fin.args :
            fin.args[k].t = "str" =>
                LET value == fin.args[k].s
                    pieces == [i \in 1..Len(value) |-> PieceOf(value, i, fin.outs)]
                IN  /\ fout[k].s = Flat(pieces)
                    /\ References(fout[k].s) =
                          Flat([i \in 1..Len(value) |->
                                   IF IsRef(value[i]) THEN References(pieces[i]) ELSE <<>>])

\* the output of step 0 holds a reference to step 0; it appears as it is
C37_Witness ==
    /\ pc = "resolved"
    /\ fin.args.prompt = Str(<<"use ", "{step_0_output}">>)
    /\ 0 \in DOMAIN fin.outs
    /\ fin.outs[0] = <<"see ", "{step_0_output}">>
    /\ fout.prompt = Str(<<"use ", "see ", "{step_0_output}">>)

-----------------------------------------------------------------------------
(* The requires_confirmation flag *)

SendEmailTool == tools[CHOOSE i \in 1..Len(tools) : tools[i].name = "send_email"]

=============================================================================
